---- MODULE Spec2Model ----
(***************************************************************************)
(* A model of terminal-table-printer's TableFormatter: the width           *)
(* distribution of distributeWidths (clamp, growth and shrink phases), the *)
(* lines render() assembles from the final widths, and the style pipeline  *)
(* of renderRow / alignAndTruncateText / applyStyle.                       *)
(*                                                                         *)
(* Text is a sequence of glyphs (one glyph = one UTF-16 code unit):        *)
(*   "a" "b"  narrow letters, display width 1                              *)
(*   "W"      a wide (East Asian) letter, display width 2                  *)
(*   "E"      the escape character U+001B, a control character, width 0    *)
(*   "[" "m" and the digits "0".."9": the rest of an escape sequence such  *)
(*            as ESC [ 3 1 m                                               *)
(*   "~"      the truncation mark (the default is the one-column "…")      *)
(*   " "      a space; "-" "|" border lines; "tl" "ts" "tr" "hl" "ms" "hr" *)
(*            "bl" "bs" "br" the corner and junction glyphs, all width 1   *)
(*   "."      a full stop, width 1 (a configured truncation mark ".." )    *)
(* Optional values are sequences: << >> is undefined, <<v>> is v.          *)
(* A raw cell value is a sequence too: a string is the sequence of its      *)
(* glyphs; a value of another type starts with a tag: <<"null">>,           *)
(* <<"undefined">>, <<"number", "4", "2">>, <<"boolean", "true">>,          *)
(* <<"object", key, value, ...>> with one-glyph keys and numeric values.    *)
(* A Style is a function from the attributes it carries to their values,   *)
(* written as strings ("true", "false", "undefined", a colour name).       *)
(***************************************************************************)
EXTENDS Integers, Sequences, FiniteSets, TLC

\* ------------------------------------------------------------------ bounds
MaxCols == 3
MaxBudget == 20

\* ------------------------------------------------------- optional values
undefined == << >>
Some(v) == <<v>>
IsDefined(o) == o # << >>
\* JavaScript's  o ?? d
Nullish(o, d) == IF o = << >> THEN d ELSE o[1]

Min2(a, b) == IF a <= b THEN a ELSE b
Max2(a, b) == IF a >= b THEN a ELSE b

RECURSIVE SumSeq(_)
SumSeq(s) == IF s = << >> THEN 0 ELSE Head(s) + SumSeq(Tail(s))

RECURSIVE Flatten(_)
Flatten(ss) == IF ss = << >> THEN << >> ELSE Head(ss) \o Flatten(Tail(ss))

\* String.prototype.repeat for a one-glyph string
Repeat(g, k) == [i \in 1..k |-> g]

\* Array.prototype.join(sep) over texts
RECURSIVE Join(_, _)
Join(parts, sep) ==
    IF parts = << >> THEN << >>
    ELSE IF Len(parts) = 1 THEN parts[1]
    ELSE parts[1] \o sep \o Join(Tail(parts), sep)

\* ----------------------------------------------------------- string-width
Digits == {"0", "1", "2", "3", "4", "5", "6", "7", "8", "9"}
IsDigit(g) == g \in Digits
\* the final byte class of ansi-regex's CSI branch, [\dA-PR-TZcf-nq-uy=><~],
\* over this alphabet: the digits and "m" (the truncation mark is not in it)
IsAnsiFinal(g) == IsDigit(g) \/ g = "m"

RECURSIVE CountWhile(_, _, _)
\* number of consecutive glyphs of s from position p on that are in set
CountWhile(s, p, set) ==
    IF p <= Len(s) /\ s[p] \in set THEN 1 + CountWhile(s, p + 1, set) ELSE 0

\* Length of the escape sequence ansi-regex matches at position p (s[p] = "E"),
\* 0 when none: ESC, a greedy run of "[", at most four digits (backtracking
\* one digit into the final byte), a final byte.
AnsiMatchLen(s, p) ==
    LET k == CountWhile(s, p + 1, {"["})
        q == p + 1 + k
        d == Min2(CountWhile(s, q, Digits), 4)
    IN  IF q + d <= Len(s) /\ IsAnsiFinal(s[q + d]) THEN 1 + k + d + 1
        ELSE IF d >= 1 THEN 1 + k + d
        ELSE 0

RECURSIVE StripAnsiFrom(_, _)
StripAnsiFrom(s, p) ==
    IF p > Len(s) THEN << >>
    ELSE IF s[p] = "E" /\ AnsiMatchLen(s, p) > 0
         THEN StripAnsiFrom(s, p + AnsiMatchLen(s, p))
    ELSE <<s[p]>> \o StripAnsiFrom(s, p + 1)

stripAnsi(s) == StripAnsiFrom(s, 1)

glyphWidth(g) == IF g = "W" THEN 2 ELSE IF g = "E" THEN 0 ELSE 1

RECURSIVE GlyphsWidth(_)
GlyphsWidth(s) == IF s = << >> THEN 0 ELSE glyphWidth(Head(s)) + GlyphsWidth(Tail(s))

\* stringWidth(text): display columns of text, escape sequences stripped
stringWidth(s) == GlyphsWidth(stripAnsi(s))

\* text.substring(0, k)
Substring0(s, k) == SubSeq(s, 1, Min2(k, Len(s)))

\* ------------------------------------------------------ program constants
DEFAULT_PADDING == [left |-> 1, right |-> 1]
DEFAULT_TRUNCATION_CHAR == <<"~">>
DEFAULT_AVAILABLE_WIDTH == 80
\* DEFAULT_BORDER = SINGLE_LINE_BORDER, every glyph one column wide
DEFAULT_BORDER ==
    [horizontal |-> <<"-">>, vertical |-> <<"|">>, topLeft |-> <<"tl">>,
     topRight |-> <<"tr">>, bottomLeft |-> <<"bl">>, bottomRight |-> <<"br">>,
     headerLeft |-> <<"hl">>, headerRight |-> <<"hr">>, topSeparator |-> <<"ts">>,
     middleSeparator |-> <<"ms">>, bottomSeparator |-> <<"bs">>,
     cellSeparator |-> <<"|">>]

\* ------------------------------------------------------------------ state
VARIABLES
    pc,                    \* position in render() / distributeWidths()
    columnNames,           \* source.getColumnNames()
    rows,                  \* the source's rows: rows[r][c] is a cell's raw value, a text
    config,                \* TableConfig; its columns are kept by column index
    stdoutColumns,         \* process.stdout.columns (undefined when not a TTY)
    chalkLevel,            \* chalk.level: 0 = colours off, 1 = basic colours
    source,                \* the row source: its kind, and where a custom one fails
    returned,              \* what the calls made so far returned or threw
    requested,             \* the calls made to the row source, in order
    observed,              \* the terminal width and colour level each render() ran with
    idealWidths,           \* calculateColumnWidths(...)
    finalWidths,           \* distributeWidths' working copy and result
    contentWidth,
    totalConstrainedWidth,
    flexColumns,
    remainingSpace,
    growthCycles,          \* completed iterations of the growth loop
    excessWidth,
    shrinkable,            \* [index, width, canShrinkBy] records, sorted
    shrinkPos,             \* position of the for loop over shrinkable
    shrunkInCycle,
    output                 \* the lines pushed so far

vars == <<pc, columnNames, rows, config, stdoutColumns, chalkLevel, source, returned,
          requested, observed,
          idealWidths,
          finalWidths, contentWidth, totalConstrainedWidth, flexColumns, remainingSpace,
          growthCycles, excessWidth, shrinkable, shrinkPos, shrunkInCycle, output>>

NumCols == Len(columnNames)
ColIdx == 1..NumCols

\* this.config.columns?.[colName], by column index
ColConfig(i) == config.columns[i]

\* config.columns?.[colName]?.padding ?? config.padding ?? DEFAULT_PADDING
PaddingOf(i) == Nullish(ColConfig(i).padding, Nullish(config.padding, DEFAULT_PADDING))

\* mutant: the minimum is the truncation mark's width, a configured minWidth ignored
MinOf_TruncationWidth(i) == 1

MinOf(i) == Nullish(ColConfig(i).minWidth, 1)
HasMax(i) == IsDefined(ColConfig(i).maxWidth)
MaxOf(i) == ColConfig(i).maxWidth[1]
\* colConfig?.flexGrow ?? 0
FlexOf(i) == Nullish(ColConfig(i).flexGrow, 0)

\* Math.min(w, max) with max = maxWidth ?? Infinity
CapToMax(i, w) == IF HasMax(i) THEN Min2(w, MaxOf(i)) ELSE w

\* mutant: the terminal's width is not consulted
availableWidth_NoTerminal == Nullish(config.maxWidth, 80)

\* availableWidth = config.maxWidth ?? process.stdout.columns ?? 80
availableWidth == Nullish(config.maxWidth, Nullish(stdoutColumns, DEFAULT_AVAILABLE_WIDTH))

\* ----------------------------------------------------------------- inputs
\* A ColumnConfig with the fields the layout reads; no formatter and no styles.
Col(header, alignment, minWidth, maxWidth, flexGrow, padding) ==
    [header |-> header, alignment |-> alignment, minWidth |-> minWidth,
     maxWidth |-> maxWidth, flexGrow |-> flexGrow, padding |-> padding,
     formatter |-> undefined, style |-> undefined, cellStyle |-> undefined,
     headerStyle |-> undefined]

PlainCol == Col(undefined, undefined, undefined, undefined, undefined, undefined)

\* The columns a table is built from: a column's configuration and its cell's text.
ColumnInputs ==
    { [cfg |-> PlainCol, cell |-> <<"a">>],
      [cfg |-> PlainCol, cell |-> <<"a", "W", "b">>],
      [cfg |-> Col(undefined, undefined, Some(3), undefined, undefined, undefined),
       cell |-> <<"a">>],
      [cfg |-> Col(Some(<< >>), undefined, Some(0), undefined, undefined,
                   Some([left |-> 0, right |-> 0])), cell |-> << >>],
      [cfg |-> Col(undefined, undefined, undefined, undefined, Some(1), undefined),
       cell |-> <<"a">>],
      [cfg |-> Col(undefined, Some("right"), undefined, undefined, Some(2), undefined),
       cell |-> <<"a", "b">>],
      [cfg |-> Col(undefined, undefined, undefined, Some(3), Some(1), undefined),
       cell |-> <<"a">>],
      [cfg |-> Col(undefined, undefined, Some(3), Some(2), undefined, undefined),
       cell |-> <<"a", "b">>],
      [cfg |-> Col(undefined, Some("center"), undefined, Some(2), undefined, undefined),
       cell |-> <<"W", "a", "b">>],
      [cfg |-> Col(undefined, undefined, Some(2), undefined, undefined,
                   Some([left |-> 2, right |-> 0])), cell |-> <<"a", "W", "b">>] }

Names == <<(<<"a">>), (<<"b">>), (<<"a", "b">>), (<<"b", "a">>), (<<"a", "a">>)>>

MaxWidths == {undefined} \cup {Some(w) : w \in 0..MaxBudget}
StdoutColumns == {undefined, Some(12)}

TypeOK ==
    /\ pc \in {"render", "growth", "shrink", "shrinkFor", "distributed", "rendered",
              "threw", "nodata", "shape", "shaped", "new"}
    /\ NumCols \in 0..MaxCols

Init ==
    \E n \in 1..MaxCols : \E inp \in [1..n -> ColumnInputs] :
    \E mw \in MaxWidths : \E so \in StdoutColumns :
        /\ (IsDefined(mw) => so = undefined)
        /\ pc = "render"
        /\ columnNames = [i \in 1..n |-> Names[i]]
        /\ rows = << [i \in 1..n |-> inp[i].cell] >>
        /\ config = [maxWidth |-> mw, padding |-> undefined,
                     truncationChar |-> undefined, theme |-> undefined,
                     alternatingRows |-> undefined, rowStyle |-> undefined,
                     rowOffset |-> undefined, rowLimit |-> undefined,
                     footer |-> undefined,
                     columns |-> [i \in 1..n |-> inp[i].cfg]]
        /\ stdoutColumns = so
        /\ chalkLevel = 0
        /\ idealWidths = << >>
        /\ finalWidths = << >>
        /\ contentWidth = 0
        /\ totalConstrainedWidth = 0
        /\ flexColumns = << >>
        /\ remainingSpace = 0
        /\ growthCycles = 0
        /\ excessWidth = 0
        /\ shrinkable = << >>
        /\ shrinkPos = 0
        /\ shrunkInCycle = FALSE
        /\ output = << >>
        /\ source = [kind |-> "json", failAt |-> undefined]
        /\ returned = << >>
        /\ requested = << >>
        /\ observed = << >>

\* ------------------------------------------------- calculateColumnWidths
\* config.columns?.[name]?.header ?? name
headerLabels == [i \in ColIdx |-> Nullish(ColConfig(i).header, columnNames[i])]

\* ------------------------------------------------------------ row source
Tags == {"null", "undefined", "number", "boolean", "object"}
TagOf(cell) == IF cell # << >> /\ cell[1] \in Tags THEN cell[1] ELSE "string"
NullValue == <<"null">>

\* source.getRowCount()
totalRows == Len(rows)

\* mutant: the Arrow source checks the bounds as the JSON source does
GetArrayRowThrows_ArrowChecks(rowIndex) ==
    CASE source.kind \in {"json", "arrow"} -> rowIndex < 0 \/ rowIndex >= Len(rows)
      [] OTHER -> source.failAt = Some(rowIndex)

\* getArrayRow(rowIndex) throws: JSONDataSource checks the bounds, ArrowDataSource
\* does not, a custom ITableDataSource fails where it fails
GetArrayRowThrows(rowIndex) ==
    CASE source.kind = "json" -> rowIndex < 0 \/ rowIndex >= Len(rows)
      [] source.kind = "arrow" -> FALSE
      [] OTHER -> source.failAt = Some(rowIndex)

\* the row getArrayRow(rowIndex) returns when it does not throw
getArrayRow(rowIndex) ==
    CASE source.kind = "json" ->
             [i \in ColIdx |-> IF TagOf(rows[rowIndex + 1][i]) = "undefined"
                               THEN NullValue ELSE rows[rowIndex + 1][i]]
      [] source.kind = "arrow" ->
             IF rowIndex < 0 \/ rowIndex >= Len(rows)
             THEN [i \in ColIdx |-> NullValue]
             ELSE rows[rowIndex + 1]
      [] OTHER -> rows[rowIndex + 1]

\* getObjectRow(rowIndex): the keyed raw values of the row, kept by column index
getObjectRow(rowIndex) == rows[rowIndex + 1]

\* ---------------------------------------------------------- display window
rowOffset == Nullish(config.rowOffset, 0)
rowLimit == Nullish(config.rowLimit, totalRows)
\* mutant: a negative offset is not raised to 0
startRow_Unclamped == rowOffset

\* mutant: the window moves on by one row with every text render() has returned
startRow_Advancing ==
    Max2(0, rowOffset) + Cardinality({k \in 1..Len(returned) : returned[k].kind = "text"})

startRow == Max2(0, rowOffset)
\* mutant: the limit is ignored
endRow_NoLimit == totalRows

endRow == Min2(totalRows, startRow + rowLimit)

\* mutant: the window is walked from its last row to its first
WindowIndices_Descending == [k \in 1..(endRow - startRow) |-> endRow - k]

\* the values of i in  for (let i = startRow; i < endRow; i++)
WindowIndices == [k \in 1..(endRow - startRow) |-> startRow + k - 1]

\* ------------------------------------------------------------ cell texts
\* the decimal text of an integer
DigitText(n) == <<"0", "1", "2", "3", "4", "5", "6", "7", "8", "9">>[n + 1]
RECURSIVE NatText(_)
NatText(n) == IF n < 10 THEN <<DigitText(n)>> ELSE NatText(n \div 10) \o <<DigitText(n % 10)>>
NumText(n) == IF n < 0 THEN <<"-">> \o NatText(0 - n) ELSE NatText(n)

\* the glyphs of a word
WordText(w) ==
    CASE w = "true" -> <<"t", "r", "u", "e">>
      [] w = "false" -> <<"f", "a", "l", "s", "e">>
      [] w = "null" -> <<"n", "u", "l", "l">>
      [] w = "undefined" -> <<"u", "n", "d", "e", "f", "i", "n", "e", "d">>
      [] OTHER -> <<"[", "o", "b", "j", "e", "c", "t", " ", "O", "b", "j", "e", "c", "t", "]">>

\* String(value), as string concatenation and template literals apply it
StringOf(cell) ==
    CASE TagOf(cell) = "string" -> cell
      [] TagOf(cell) = "number" -> Tail(cell)
      [] TagOf(cell) = "boolean" -> WordText(cell[2])
      [] TagOf(cell) = "object" -> WordText("object")
      [] OTHER -> WordText(cell[1])

RECURSIVE JSONMembers(_)
\* "key":value of each member, separated by commas
JSONMembers(kv) ==
    IF kv = << >> THEN << >>
    ELSE <<"\"", kv[1], "\"", ":", kv[2]>>
         \o (IF Len(kv) > 2 THEN <<",">> ELSE << >>) \o JSONMembers(SubSeq(kv, 3, Len(kv)))

\* JSON.stringify(cell) of a structured value
JSONStringify(cell) == <<"{">> \o JSONMembers(Tail(cell)) \o <<"}">>

\* A formatter is a callback of the shape (val, i) => prefix + val + suffix; it may
\* leave the value out, and it may append the row index.
ApplyFormatter(f, cell, rowIndex) ==
    f.prefix \o (IF f.keep THEN StringOf(cell) ELSE << >>) \o f.suffix
    \o (IF f.index THEN NumText(rowIndex) ELSE << >>)

\* mutant: the formatter is given the position among the displayed rows
FormatCell_DisplayedIndex(i, cell, rowIndex) ==
    IF IsDefined(ColConfig(i).formatter)
    THEN ApplyFormatter(ColConfig(i).formatter[1], cell, rowIndex - startRow)
    ELSE IF TagOf(cell) = "object" THEN <<"{">> \o JSONMembers(Tail(cell)) \o <<"}">>
    ELSE IF TagOf(cell) \in {"null", "undefined"} THEN << >>
    ELSE StringOf(cell)

\* formatter ? formatter(cell, i)
\*           : typeof cell === "object" && cell !== null ? JSON.stringify(cell)
\*           : String(cell ?? "")
FormatCell(i, cell, rowIndex) ==
    IF IsDefined(ColConfig(i).formatter)
    THEN ApplyFormatter(ColConfig(i).formatter[1], cell, rowIndex)
    ELSE IF TagOf(cell) = "object" THEN JSONStringify(cell)
    ELSE IF TagOf(cell) \in {"null", "undefined"} THEN << >>
    ELSE StringOf(cell)

\* rows of the display window, formatted column by column
formattedDataWindow ==
    [k \in 1..Len(WindowIndices) |->
        [i \in ColIdx |-> FormatCell(i, getArrayRow(WindowIndices[k])[i], WindowIndices[k])]]

RECURSIVE MaxCellWidth(_, _, _)
\* the running maximum of calculateColumnWidths over the rows of the window
MaxCellWidth(w, window, i) ==
    IF window = << >> THEN w
    ELSE MaxCellWidth(Max2(w, stringWidth(Head(window)[i])), Tail(window), i)

calculateColumnWidths(headers, dataWindow) ==
    [i \in 1..Len(headers) |-> MaxCellWidth(stringWidth(headers[i]), dataWindow, i)]

\* ------------------------------------------------------ distributeWidths
\* mutant: the maximum is applied last, so it wins over a larger minimum
ClampWidth_MaxWins(i, w) == CapToMax(i, Max2(MinOf(i), w))

\* Math.max(min, Math.min(w, max))
ClampWidth(i, w) == Max2(MinOf(i), CapToMax(i, w))

\* mutant: only the left padding is taken off the budget
TotalPadding_LeftOnly == SumSeq([i \in ColIdx |-> PaddingOf(i).left])

TotalPadding == SumSeq([i \in ColIdx |-> PaddingOf(i).left + PaddingOf(i).right])

\* the indices i of 1..n, in order, that satisfy keep[i]
RECURSIVE FilterIdx(_, _, _)
FilterIdx(i, n, keep) ==
    IF i > n THEN << >>
    ELSE (IF keep[i] THEN <<i>> ELSE << >>) \o FilterIdx(i + 1, n, keep)

\* the getArrayRow calls of the formatting loop: one per index of the window, up to
\* the first that throws
ArrayRowCalls ==
    LET failing == {k \in 1..Len(WindowIndices) : GetArrayRowThrows(WindowIndices[k])}
        last == IF failing = {} THEN Len(WindowIndices)
                ELSE CHOOSE k \in failing : \A j \in failing : k <= j
    IN  [k \in 1..last |-> [method |-> "getArrayRow", index |-> WindowIndices[k]]]

\* mutant: columns at their maxWidth keep taking a share
growableColumns_All == flexColumns

\* flex columns that have not hit their maxWidth
growableColumns ==
    LET keep == [i \in ColIdx |-> /\ \E k \in 1..Len(flexColumns) : flexColumns[k] = i
                                  /\ (HasMax(i) => finalWidths[i] < MaxOf(i))]
    IN  FilterIdx(1, NumCols, keep)

totalGrowableFlex == SumSeq([k \in 1..Len(growableColumns) |-> FlexOf(growableColumns[k])])

\* mutant: the space is split evenly, the weights ignored
Share_EqualSplit(i) == remainingSpace \div Len(flexColumns)

\* Math.floor(spaceToDistribute * (flexGrow / totalGrowableFlex)); within the
\* model's bounds the floating-point product floors to the exact quotient
Share(i) == (remainingSpace * FlexOf(i)) \div totalGrowableFlex

\* mutant: growth is not capped at the room below maxWidth
Growth_Uncapped(i) == Share(i)

\* Math.min(share, max - finalWidths[i])
Growth(i) == IF HasMax(i) THEN Min2(Share(i), MaxOf(i) - finalWidths[i]) ELSE Share(i)

IsGrowable(i) == \E k \in 1..Len(growableColumns) : growableColumns[k] = i

GrownWidths ==
    [i \in ColIdx |-> IF IsGrowable(i) /\ Growth(i) > 0
                      THEN finalWidths[i] + Growth(i) ELSE finalWidths[i]]

\* mutant: the columns that took part are counted, not the units they grew by
spaceDistributedInCycle_Columns == Len(growableColumns)

spaceDistributedInCycle == SumSeq(GrownWidths) - SumSeq(finalWidths)

\* one iteration of the growth loop, with its three breaks
GrowthIteration ==
    /\ pc = "growth"
    /\ remainingSpace > 0 /\ Len(flexColumns) > 0
    /\ IF \/ Len(growableColumns) = 0
          \/ totalGrowableFlex = 0
          \/ spaceDistributedInCycle = 0
       THEN /\ pc' = "shrink"
            /\ UNCHANGED <<finalWidths, remainingSpace, totalConstrainedWidth, growthCycles>>
       ELSE /\ finalWidths' = GrownWidths
            /\ remainingSpace' = remainingSpace - spaceDistributedInCycle
            /\ totalConstrainedWidth' = totalConstrainedWidth + spaceDistributedInCycle
            /\ growthCycles' = growthCycles + 1
            /\ pc' = "growth"
    /\ UNCHANGED <<source, requested, observed, chalkLevel, columnNames, rows, config,
                   stdoutColumns, returned,
                   idealWidths,contentWidth,
                   flexColumns, excessWidth, shrinkable, shrinkPos, shrunkInCycle, output>>

\* the growth loop's condition is false
GrowthExit ==
    /\ pc = "growth"
    /\ ~(remainingSpace > 0 /\ Len(flexColumns) > 0)
    /\ pc' = "shrink"
    /\ UNCHANGED <<source, requested, observed, chalkLevel, columnNames, rows, config,
                   stdoutColumns, returned,
                   idealWidths,finalWidths,
                   contentWidth, totalConstrainedWidth, flexColumns, remainingSpace,
                   growthCycles, excessWidth, shrinkable, shrinkPos, shrunkInCycle, output>>

\* Array.prototype.sort((a, b) => b.width - a.width): stable, descending by width
RECURSIVE InsertByWidth(_, _)
InsertByWidth(sorted, c) ==
    IF sorted = << >> THEN <<c>>
    ELSE IF Head(sorted).width >= c.width THEN <<Head(sorted)>> \o InsertByWidth(Tail(sorted), c)
    ELSE <<c>> \o sorted

\* mutant: the shrinkable columns stay in column order
SortByWidthDesc_ColumnOrder(s) == s

RECURSIVE SortByWidthDesc(_)
SortByWidthDesc(s) ==
    IF s = << >> THEN << >>
    ELSE InsertByWidth(SortByWidthDesc(SubSeq(s, 1, Len(s) - 1)), s[Len(s)])

\* mutant: a column may not shrink down to its minimum, only to one above it
ShrinkableOf_OffByOne(widths) ==
    LET idx == FilterIdx(1, NumCols, [i \in ColIdx |-> widths[i] - MinOf(i) - 1 > 0])
    IN  SortByWidthDesc([k \in 1..Len(idx) |->
            [index |-> idx[k], width |-> widths[idx[k]],
             canShrinkBy |-> widths[idx[k]] - MinOf(idx[k]) - 1]])

\* finalWidths.map(...).filter(c => c.canShrinkBy > 0).sort(...)
ShrinkableOf(widths) ==
    LET idx == FilterIdx(1, NumCols, [i \in ColIdx |-> widths[i] - MinOf(i) > 0])
    IN  SortByWidthDesc([k \in 1..Len(idx) |->
            [index |-> idx[k], width |-> widths[idx[k]],
             canShrinkBy |-> widths[idx[k]] - MinOf(idx[k])]])

\* what distributeWidths returns
WidthsResult(widths) == [kind |-> "widths", name |-> "", lines |-> widths]

\* the shrink phase up to its first for loop
ShrinkBegin ==
    /\ pc = "shrink"
    /\ LET excess == totalConstrainedWidth - contentWidth
           cand == IF excess > 0 THEN ShrinkableOf(finalWidths) ELSE << >>
       IN  /\ excessWidth' = excess
           /\ shrinkable' = cand
           /\ shrinkPos' = 1
           /\ shrunkInCycle' = FALSE
           /\ pc' = IF excess > 0 /\ Len(cand) > 0 THEN "shrinkFor" ELSE "distributed"
           /\ returned' = IF excess > 0 /\ Len(cand) > 0 THEN returned
                          ELSE Append(returned, WidthsResult(finalWidths))
    /\ UNCHANGED <<source, requested, observed, chalkLevel, columnNames, rows, config,
                   stdoutColumns,
                   idealWidths,finalWidths,
                   contentWidth, totalConstrainedWidth, flexColumns, remainingSpace,
                   growthCycles, output>>

\* one iteration of the for loop over shrinkable, and the loop ends that follow it
ShrinkVisit ==
    /\ pc = "shrinkFor"
    /\ LET col == shrinkable[shrinkPos]
           take == col.canShrinkBy > 0
           excess == IF take THEN excessWidth - 1 ELSE excessWidth
           shrunk == shrunkInCycle \/ take
           endFor == (take /\ excess = 0) \/ shrinkPos = Len(shrinkable)
       IN  /\ finalWidths' = IF take
                             THEN [finalWidths EXCEPT ![col.index] = @ - 1]
                             ELSE finalWidths
           /\ shrinkable' = IF take
                            THEN [shrinkable EXCEPT ![shrinkPos].canShrinkBy = @ - 1]
                            ELSE shrinkable
           /\ excessWidth' = excess
           /\ IF ~endFor
              THEN /\ shrinkPos' = shrinkPos + 1
                   /\ shrunkInCycle' = shrunk
                   /\ pc' = "shrinkFor"
                   /\ UNCHANGED returned
              ELSE /\ shrinkPos' = 1
                   /\ shrunkInCycle' = FALSE
                   /\ pc' = IF shrunk /\ excess > 0 THEN "shrinkFor" ELSE "distributed"
                   /\ returned' = IF shrunk /\ excess > 0 THEN returned
                                  ELSE Append(returned, WidthsResult(finalWidths'))
    /\ UNCHANGED <<source, requested, observed, chalkLevel, columnNames, rows, config,
                   stdoutColumns,
                   idealWidths,contentWidth,
                   totalConstrainedWidth, flexColumns, remainingSpace, growthCycles, output>>


\* -------------------------------------------------- alignAndTruncateText
truncationChar == Nullish(config.truncationChar, DEFAULT_TRUNCATION_CHAR)

RECURSIVE PrefixLength(_, _, _)
\* the while loop: the first newLength whose next prefix is wider than limit
PrefixLength(text, limit, newLength) ==
    IF newLength < Len(text) /\ stringWidth(Substring0(text, newLength + 1)) <= limit
    THEN PrefixLength(text, limit, newLength + 1)
    ELSE newLength

RECURSIVE ClipMarker(_, _, _)
\* the for loop over the glyphs of the truncation mark
ClipMarker(clipped, rest, width) ==
    IF rest = << >> \/ stringWidth(clipped \o <<Head(rest)>>) > width THEN clipped
    ELSE ClipMarker(clipped \o <<Head(rest)>>, Tail(rest), width)

\* mutant: text wider than its column is not truncated
TruncateText_NoTruncation(text, width) == text

TruncateText(text, width) ==
    IF stringWidth(text) > width
    THEN IF width >= stringWidth(truncationChar)
         THEN Substring0(text, PrefixLength(text, width - stringWidth(truncationChar), 0))
                  \o truncationChar
         ELSE ClipMarker(<< >>, truncationChar, width)
    ELSE text

\* " ".repeat(k); a negative count raises a RangeError, shown as the text <<"!">>
Spaces(k) == IF k >= 0 THEN Repeat(" ", k) ELSE <<"!">>

alignAndTruncateText(text, width, alignment, columnIndex) ==
    LET padding == PaddingOf(columnIndex)
        truncatedText == TruncateText(text, width)
        textWidth == stringWidth(truncatedText)
        totalWidth == width + padding.left + padding.right
    IN  IF alignment = "right"
        THEN Spaces(totalWidth - textWidth - padding.right) \o truncatedText
                 \o Spaces(padding.right)
        ELSE IF alignment = "center"
        THEN LET padLeft == (totalWidth - textWidth) \div 2
             IN  Spaces(padLeft) \o truncatedText \o Spaces(totalWidth - textWidth - padLeft)
        ELSE Spaces(padding.left) \o truncatedText
                 \o Spaces(totalWidth - textWidth - padding.left)

AlignmentOf(i) == Nullish(ColConfig(i).alignment, "left")

\* ------------------------------------------------------------ the lines
\* { ...DEFAULT_BORDER, ...config.border }: no border is configured
borderChars == DEFAULT_BORDER

\* text.repeat(k); a negative count raises a RangeError, shown as the text <<"!">>
RepeatText(text, k) == IF k >= 0 THEN Flatten([j \in 1..k |-> text]) ELSE <<"!">>

renderSeparator(widths, leftKey, middleKey, rightKey, lineKey) ==
    LET parts == [i \in 1..Len(widths) |->
                    RepeatText(borderChars[lineKey],
                               widths[i] + PaddingOf(i).left + PaddingOf(i).right)]
    IN  borderChars[leftKey] \o Join(parts, borderChars[middleKey]) \o borderChars[rightKey]

\* ------------------------------------------------------------------ styles
Attributes == {"color", "backgroundColor", "bold", "italic", "underline"}
ThemeSlots == {"header", "cell", "alternatingCell", "footer"}

\* the style {}
EmptyStyle == [a \in {} |-> "undefined"]

\* the object spread { ...s, ...t }: t's keys win, whatever their values
MergeStyle(s, t) ==
    [a \in (DOMAIN s) \cup (DOMAIN t) |-> IF a \in DOMAIN t THEN t[a] ELSE s[a]]

DEFAULT_THEME ==
    [header |-> [bold |-> "true"], cell |-> EmptyStyle,
     alternatingCell |-> [color |-> "gray"], footer |-> [color |-> "gray"]]

\* config.theme?.[slot], spread as {} when it is not given
ConfiguredSlot(slot) ==
    IF IsDefined(config.theme) /\ slot \in DOMAIN config.theme[1]
    THEN config.theme[1][slot]
    ELSE EmptyStyle

\* mutant: { ...DEFAULT_THEME, ...config.theme } without the merge of the slots
theme_Shallow ==
    [slot \in ThemeSlots |->
        IF IsDefined(config.theme) /\ slot \in DOMAIN config.theme[1]
        THEN config.theme[1][slot] ELSE DEFAULT_THEME[slot]]

\* this.theme, as the constructor merges it
theme == [slot \in ThemeSlots |-> MergeStyle(DEFAULT_THEME[slot], ConfiguredSlot(slot))]

\* the colour names of the palette that the model uses
CHALK_COLOR_NAMES == {"red", "green", "gray"}
CHALK_BACKGROUND_COLORS == [red |-> "bgRed", green |-> "bgGreen", gray |-> "bgGray"]
CHALK_BACKGROUND_COLOR_NAMES ==
    {CHALK_BACKGROUND_COLORS[c] : c \in DOMAIN CHALK_BACKGROUND_COLORS}

\* chalk's SGR parameters (ansi-styles) of each styler
AnsiCodes ==
    [red |-> [open |-> <<"3", "1">>, close |-> <<"3", "9">>],
     green |-> [open |-> <<"3", "2">>, close |-> <<"3", "9">>],
     gray |-> [open |-> <<"9", "0">>, close |-> <<"3", "9">>],
     bgRed |-> [open |-> <<"4", "1">>, close |-> <<"4", "9">>],
     bgGreen |-> [open |-> <<"4", "2">>, close |-> <<"4", "9">>],
     bgGray |-> [open |-> <<"1", "0", "0">>, close |-> <<"4", "9">>],
     bold |-> [open |-> <<"1">>, close |-> <<"2", "2">>],
     italic |-> [open |-> <<"3">>, close |-> <<"2", "3">>],
     underline |-> [open |-> <<"4">>, close |-> <<"2", "4">>]]

\* the escape sequence ESC [ code m
Sgr(code) == <<"E", "[">> \o code \o <<"m">>

\* if (style.attr): the attribute is present with a truthy value
Truthy(style, a) == a \in DOMAIN style /\ style[a] \notin {"undefined", "false", ""}

\* the chain of stylers applyStyle builds (hexadecimal colours are not in the inputs)
StylerChain(style) ==
    (IF Truthy(style, "color") /\ style.color \in CHALK_COLOR_NAMES
     THEN <<style.color>> ELSE << >>)
    \o (IF ~Truthy(style, "backgroundColor") THEN << >>
        ELSE IF style.backgroundColor \in CHALK_BACKGROUND_COLOR_NAMES
        THEN <<style.backgroundColor>>
        ELSE IF style.backgroundColor \in DOMAIN CHALK_BACKGROUND_COLORS
        THEN <<CHALK_BACKGROUND_COLORS[style.backgroundColor]>>
        ELSE << >>)
    \o (IF Truthy(style, "bold") THEN <<"bold">> ELSE << >>)
    \o (IF Truthy(style, "italic") THEN <<"italic">> ELSE << >>)
    \o (IF Truthy(style, "underline") THEN <<"underline">> ELSE << >>)

\* styler(text): chalk wraps a non-empty text in the opening codes, in chain
\* order, and the closing codes, in reverse order, unless colours are off
Chalk(chain, text) ==
    IF chalkLevel = 0 \/ text = << >> \/ chain = << >> THEN text
    ELSE Flatten([k \in 1..Len(chain) |-> Sgr(AnsiCodes[chain[k]].open)])
         \o text
         \o Flatten([k \in 1..Len(chain) |-> Sgr(AnsiCodes[chain[Len(chain) + 1 - k]].close)])

\* text.includes("\u001b[")
IncludesEscape(text) == \E k \in 1..(Len(text) - 1) : text[k] = "E" /\ text[k + 1] = "["

applyStyle(text, style) ==
    IF IncludesEscape(text) THEN text ELSE Chalk(StylerChain(style), text)

\* A conditional style is a callback of the shape (v) => v === when ? then : undefined;
\* a row style reads one field of the keyed row.
conditionalRowStyle(originalRow) ==
    IF IsDefined(config.rowStyle) /\ originalRow[config.rowStyle[1].field] = config.rowStyle[1].when
    THEN config.rowStyle[1].then
    ELSE EmptyStyle

\* mutant: the callback is given the text the column's formatter made of the value
conditionalCellStyle_Formatted(i, originalValue) ==
    IF IsDefined(ColConfig(i).cellStyle)
       /\ FormatCell(i, originalValue, 0) = ColConfig(i).cellStyle[1].when
    THEN ColConfig(i).cellStyle[1].then
    ELSE EmptyStyle

conditionalCellStyle(i, originalValue) ==
    IF IsDefined(ColConfig(i).cellStyle) /\ originalValue = ColConfig(i).cellStyle[1].when
    THEN ColConfig(i).cellStyle[1].then
    ELSE EmptyStyle

\* columnConfig?.style ?? {}
staticColumnStyle(i) == Nullish(ColConfig(i).style, EmptyStyle)

\* mutant: the position among the displayed rows decides, not the row index
isAlternating_Displayed(rowIndex) ==
    Nullish(config.alternatingRows, FALSE) /\ (rowIndex - startRow) % 2 # 0

\* config.alternatingRows && rowIndex % 2 !== 0  (rowIndex counts from 0)
isAlternating(rowIndex) == Nullish(config.alternatingRows, FALSE) /\ rowIndex % 2 # 0

baseRowStyle(rowIndex) ==
    IF isAlternating(rowIndex) THEN theme.alternatingCell ELSE theme.cell

mergedRowStyle(originalRow, rowIndex) ==
    MergeStyle(baseRowStyle(rowIndex), conditionalRowStyle(originalRow))

\* mutant: the static column style is merged last, over the cell's conditional style
finalStyle_ColumnLast(i, originalRow, rowIndex) ==
    MergeStyle(MergeStyle(mergedRowStyle(originalRow, rowIndex),
                          conditionalCellStyle(i, originalRow[i])),
               staticColumnStyle(i))

\* the style of a cell: row style, then column.style, then column.cellStyle(value)
finalStyle(i, originalRow, rowIndex) ==
    MergeStyle(MergeStyle(mergedRowStyle(originalRow, rowIndex), staticColumnStyle(i)),
               conditionalCellStyle(i, originalRow[i]))

\* alignedHeader.trim() === ""
IsBlank(text) == \A k \in 1..Len(text) : text[k] = " "

renderHeader(headers, widths) ==
    LET cells == [i \in 1..Len(headers) |->
            LET style == MergeStyle(theme.header, Nullish(ColConfig(i).headerStyle, EmptyStyle))
                alignedHeader == alignAndTruncateText(headers[i], widths[i], AlignmentOf(i), i)
            IN  IF IsBlank(alignedHeader) THEN alignedHeader
                ELSE applyStyle(alignedHeader, style)]
    IN  borderChars.vertical \o Join(cells, borderChars.vertical) \o borderChars.vertical

renderRow(rowCells, originalRow, widths, rowIndex) ==
    LET cells == [i \in 1..Len(rowCells) |->
            applyStyle(alignAndTruncateText(rowCells[i], widths[i], AlignmentOf(i), i),
                       finalStyle(i, originalRow, rowIndex))]
    IN  borderChars.vertical \o Join(cells, borderChars.cellSeparator) \o borderChars.vertical

\* ----------------------------------------------------------------- footer
\* mutant: truncated whenever fewer rows are displayed than the source has
footerInfo_WindowTruncated ==
    [totalRows |-> totalRows, displayedRows |-> endRow - startRow,
     isTruncated |-> endRow - startRow < totalRows, startRow |-> startRow, endRow |-> endRow]

footerInfo ==
    [totalRows |-> totalRows, displayedRows |-> endRow - startRow,
     isTruncated |-> totalRows > rowLimit, startRow |-> startRow, endRow |-> endRow]

\* A footer is a callback of the shape
\*   (info) => (info.isTruncated ? truncated : complete)
\* followed, when it shows the counts, by `${info.displayedRows}/${info.totalRows}`.
ApplyFooter(f, info) ==
    (IF info.isTruncated THEN f.truncated ELSE f.complete)
    \o (IF f.counts THEN NumText(info.displayedRows) \o <<"/">> \o NumText(info.totalRows)
        ELSE << >>)

\* totalContentWidth + totalPadding + innerBorderWidth
totalInnerWidth ==
    SumSeq(finalWidths) + TotalPadding + (IF NumCols > 1 THEN NumCols - 1 ELSE 0)

\* text.padEnd(n, " "): pads to n code units, never shortens
PadEnd(text, n) == IF Len(text) >= n THEN text ELSE text \o Repeat(" ", n - Len(text))

\* the separator above the footer, the footer line and the solid bottom line
footerLines ==
    LET footerText == ApplyFooter(config.footer[1], footerInfo)
        paddedFooter == applyStyle(PadEnd(<<" ">> \o footerText, totalInnerWidth), theme.footer)
    IN  <<renderSeparator(finalWidths, "headerLeft", "bottomSeparator", "headerRight",
                          "horizontal"),
          borderChars.vertical \o paddedFooter \o borderChars.vertical,
          borderChars.bottomLeft \o RepeatText(borderChars.horizontal, totalInnerWidth)
              \o borderChars.bottomRight>>

\* mutant: an empty window gives no data line
dataLines_NoEmptyRow ==
    [k \in 1..Len(formattedDataWindow) |->
        renderRow(formattedDataWindow[k], getObjectRow(WindowIndices[k]), finalWidths,
                  WindowIndices[k])]

\* the data lines: one per row of the window, or one empty row for an empty window
dataLines ==
    LET window == formattedDataWindow
        indices == WindowIndices
    IN  IF Len(window) = 0
        THEN <<renderRow([i \in ColIdx |-> << >>], [i \in ColIdx |-> NullValue],
                         finalWidths, 0)>>
        ELSE [k \in 1..Len(window) |->
                 renderRow(window[k], getObjectRow(indices[k]), finalWidths, indices[k])]

\* mutant: the table is closed by the bottom border with junctions also below a footer
renderedLines_JunctionBottom ==
    <<renderSeparator(finalWidths, "topLeft", "topSeparator", "topRight", "horizontal"),
      renderHeader(headerLabels, finalWidths),
      renderSeparator(finalWidths, "headerLeft", "middleSeparator", "headerRight",
                      "horizontal")>>
    \o dataLines
    \o (IF IsDefined(config.footer) THEN SubSeq(footerLines, 1, 2) ELSE << >>)
    \o <<renderSeparator(finalWidths, "bottomLeft", "bottomSeparator", "bottomRight",
                         "horizontal")>>

\* the lines render() pushes to output
renderedLines ==
    <<renderSeparator(finalWidths, "topLeft", "topSeparator", "topRight", "horizontal"),
      renderHeader(headerLabels, finalWidths),
      renderSeparator(finalWidths, "headerLeft", "middleSeparator", "headerRight",
                      "horizontal")>>
    \o dataLines
    \o (IF IsDefined(config.footer) THEN footerLines
        ELSE <<renderSeparator(finalWidths, "bottomLeft", "bottomSeparator", "bottomRight",
                               "horizontal")>>)

\* a line whose construction met a negative repeat count
HasRangeError(line) == \E j \in 1..Len(line) : line[j] = "!"
FirstRangeError(lines) ==
    CHOOSE k \in 1..Len(lines) :
        HasRangeError(lines[k]) /\ \A j \in 1..(k - 1) : ~HasRangeError(lines[j])

\* the getObjectRow calls of the data rows: one before each of the first n rows of
\* the window
ObjectRowCalls(n) ==
    [k \in 1..Min2(n, Len(WindowIndices)) |->
        [method |-> "getObjectRow", index |-> WindowIndices[k]]]

\* mutant: the placeholder of a table without rows
NO_DATA_NoRows == <<"(", "N", "o", " ", "r", "o", "w", "s", ")">>

\* this.applyStyle("(No data)", ...): the text render() returns without columns
NO_DATA == <<"(", "N", "o", " ", "d", "a", "t", "a", ")">>

\* render() up to distributeWidths' clamp loop: without columns the placeholder is
\* returned at once; else fetch and format the window's rows (a throw of the row
\* source ends the call), measure, clamp, collect flex columns
RenderBegin ==
    /\ pc = "render"
    /\ observed' = Append(observed, [columns |-> stdoutColumns, level |-> chalkLevel])
    /\ IF NumCols = 0
       THEN /\ pc' = "nodata"
            /\ \E text \in {applyStyle(NO_DATA, theme.cell)} :
                   /\ output' = <<text>>
                   /\ returned' = Append(returned, [kind |-> "text", name |-> "",
                                                    lines |-> <<text>>])
            /\ UNCHANGED <<requested, idealWidths, finalWidths, contentWidth,
                           totalConstrainedWidth, flexColumns, remainingSpace>>
       ELSE IF \E k \in 1..Len(WindowIndices) : GetArrayRowThrows(WindowIndices[k])
       THEN /\ pc' = "threw"
            /\ requested' = requested \o ArrayRowCalls
            /\ returned' = Append(returned, [kind |-> "error", name |-> "Error", lines |-> << >>])
            /\ UNCHANGED <<idealWidths, finalWidths, contentWidth, totalConstrainedWidth,
                           flexColumns, remainingSpace, output>>
       ELSE /\ LET ideal == calculateColumnWidths(headerLabels, formattedDataWindow)
                   clamped == [i \in ColIdx |-> ClampWidth(i, ideal[i])]
                   cw == availableWidth - (NumCols + 1) - TotalPadding
               IN  /\ idealWidths' = ideal
                   /\ finalWidths' = clamped
                   /\ contentWidth' = cw
                   /\ totalConstrainedWidth' = SumSeq(clamped)
                   /\ flexColumns' = FilterIdx(1, NumCols, [i \in ColIdx |-> FlexOf(i) # 0])
                   /\ remainingSpace' = cw - SumSeq(clamped)
            /\ pc' = "growth"
            /\ requested' = requested \o ArrayRowCalls
            /\ UNCHANGED <<returned, output>>
    /\ UNCHANGED <<source, chalkLevel, columnNames, rows, config, stdoutColumns,
                   growthCycles, excessWidth,
                   shrinkable, shrinkPos, shrunkInCycle>>

\* render() after distributeWidths returned: the lines are joined and returned,
\* unless a repeat count was negative and a RangeError ended the call
RenderLines ==
    /\ pc = "distributed"
    /\ \E lines \in {renderedLines} :
           IF \E k \in 1..Len(lines) : HasRangeError(lines[k])
           THEN /\ pc' = "threw"
                /\ output' = << >>
                /\ requested' = requested \o ObjectRowCalls(FirstRangeError(lines) - 3)
                /\ returned' = Append(returned, [kind |-> "error", name |-> "RangeError",
                                                 lines |-> << >>])
           ELSE /\ pc' = "rendered"
                /\ output' = lines
                /\ requested' = requested \o ObjectRowCalls(Len(WindowIndices))
                /\ returned' = Append(returned, [kind |-> "text", name |-> "",
                                                 lines |-> lines])
    /\ UNCHANGED <<source, observed, chalkLevel, columnNames, rows, config, stdoutColumns,
                   idealWidths, finalWidths,
                   contentWidth, totalConstrainedWidth, flexColumns, remainingSpace,
                   growthCycles, excessWidth, shrinkable, shrinkPos, shrunkInCycle>>

Next ==
    \/ RenderBegin
    \/ GrowthIteration
    \/ GrowthExit
    \/ ShrinkBegin
    \/ ShrinkVisit
    \/ RenderLines

Spec == Init /\ [][Next]_vars

\* ------------------------------------------------- tables with styled cells
MaxStyleCols == 2

\* a ColumnConfig with a formatter and styles
StyledCol(col, formatter, style, cellStyle, headerStyle) ==
    [col EXCEPT !.formatter = formatter, !.style = style, !.cellStyle = cellStyle,
                !.headerStyle = headerStyle]

\* (val) => chalk.red(val) at colour level 1: the value between ESC[31m and ESC[39m
PreStyledFormatter ==
    [prefix |-> <<"E", "[", "3", "1", "m">>, keep |-> TRUE,
     suffix |-> <<"E", "[", "3", "9", "m">>, index |-> FALSE]

\* (val) => "b" + val
PlainFormatter == [prefix |-> <<"b">>, keep |-> TRUE, suffix |-> << >>, index |-> FALSE]

\* (v) => v === "b" ? { color: "red", bold: false } : undefined
CellStyleOfB == [when |-> <<"b">>, then |-> [color |-> "red", bold |-> "false"]]
\* (v) => v === "a" ? { bold: true, color: undefined } : undefined
CellStyleOfA == [when |-> <<"a">>, then |-> [bold |-> "true", color |-> "undefined"]]

\* The columns of a styled table: a configuration and the raw values of two rows.
StyleColumnInputs ==
    { [cfg |-> PlainCol, cells |-> <<(<<"a">>), (<<"b">>)>>],
      [cfg |-> StyledCol(PlainCol, undefined, Some([color |-> "gray"]),
                         Some(CellStyleOfB), undefined),
       cells |-> <<(<<"b">>), (<<"b">>)>>],
      [cfg |-> StyledCol(Col(undefined, undefined, undefined, Some(2), undefined, undefined),
                         Some(PreStyledFormatter), Some([color |-> "green"]),
                         undefined, undefined),
       cells |-> <<(<<"a">>), (<<"a", "a", "b">>)>>],
      [cfg |-> StyledCol(Col(undefined, Some("right"), undefined, undefined, Some(1), undefined),
                         Some(PreStyledFormatter), Some([underline |-> "true"]),
                         Some(CellStyleOfA), undefined),
       cells |-> <<(<<"a", "b">>), (<<"a">>)>>],
      [cfg |-> StyledCol(PlainCol, undefined,
                         Some([color |-> "undefined", backgroundColor |-> "red"]),
                         Some(CellStyleOfA), Some([color |-> "red"])),
       cells |-> <<(<<"b">>), (<<"a">>)>>],
      [cfg |-> StyledCol(PlainCol, Some(PlainFormatter), Some([italic |-> "true"]),
                         Some(CellStyleOfA), undefined),
       cells |-> <<(<<"a">>), (<<"a">>)>>],
      [cfg |-> StyledCol(Col(undefined, undefined, undefined, Some(1), undefined, undefined),
                         Some(PreStyledFormatter), Some([color |-> "green"]),
                         undefined, undefined),
       cells |-> <<(<<"a", "b">>), (<<"a">>)>>] }

\* config.theme
StyleThemes ==
    { undefined,
      Some([cell |-> [color |-> "green", underline |-> "true"]]),
      Some([alternatingCell |-> [backgroundColor |-> "red", bold |-> "false"],
            header |-> [color |-> "red"]]) }

\* config.rowStyle: (row) => row[first column] === "a" ? { color: "red", bold: true } : undefined
RowStyles ==
    { undefined,
      Some([field |-> 1, when |-> <<"a">>, then |-> [color |-> "red", bold |-> "true"]]) }

StyleBudgets == {undefined, Some(8), Some(14)}

StyleInit ==
    \E n \in 1..MaxStyleCols : \E inp \in [1..n -> StyleColumnInputs] :
    \E th \in StyleThemes : \E alt \in {undefined, Some(TRUE)} : \E rs \in RowStyles :
    \E mw \in StyleBudgets : \E lvl \in {0, 1} :
        /\ pc = "render"
        /\ columnNames = [i \in 1..n |-> Names[i]]
        /\ rows = [r \in 1..2 |-> [i \in 1..n |-> inp[i].cells[r]]]
        /\ config = [maxWidth |-> mw, padding |-> undefined,
                     truncationChar |-> undefined, theme |-> th,
                     alternatingRows |-> alt, rowStyle |-> rs,
                     rowOffset |-> undefined, rowLimit |-> undefined,
                     footer |-> undefined,
                     columns |-> [i \in 1..n |-> inp[i].cfg]]
        /\ stdoutColumns = undefined
        /\ chalkLevel = lvl
        /\ idealWidths = << >>
        /\ finalWidths = << >>
        /\ contentWidth = 0
        /\ totalConstrainedWidth = 0
        /\ flexColumns = << >>
        /\ remainingSpace = 0
        /\ growthCycles = 0
        /\ excessWidth = 0
        /\ shrinkable = << >>
        /\ shrinkPos = 0
        /\ shrunkInCycle = FALSE
        /\ output = << >>
        /\ source = [kind |-> "json", failAt |-> undefined]
        /\ returned = << >>
        /\ requested = << >>
        /\ observed = << >>

SpecStyle == StyleInit /\ [][Next]_vars

\* ------------------------------------- paginated tables with a footer
MaxPageCols == 2
MaxRows == 3

\* (val, i) => "b" + val + i
IndexFormatter == [prefix |-> <<"b">>, keep |-> TRUE, suffix |-> << >>, index |-> TRUE]

\* The columns of a paginated table: a configuration and the raw values of the
\* column, row after row (repeated from the start in a longer source).
PageColumnInputs ==
    { [cfg |-> PlainCol,
       cells |-> <<(<<"a">>), (<<"a", "W", "b">>), (<<"b", "b">>)>>],
      [cfg |-> StyledCol(PlainCol, Some(IndexFormatter), undefined, undefined, undefined),
       cells |-> <<(<<"a">>), (<<"number", "4", "2">>), (<<"null">>)>>],
      [cfg |-> PlainCol,
       cells |-> <<(<<"null">>), (<<"object", "a", "1", "b", "2">>), (<<"number", "7">>)>>],
      [cfg |-> Col(undefined, undefined, undefined, undefined, Some(1), undefined),
       cells |-> <<(<<"boolean", "true">>), (<<"undefined">>), (<<"a", "b">>)>>] }

RowOffsets == {undefined, Some(-1), Some(1), Some(MaxRows + 1)}
RowLimits == {undefined, Some(-1), Some(0), Some(1), Some(2)}

\* JSONDataSource, ArrowDataSource, and an ITableDataSource whose getArrayRow(1) throws
Sources ==
    { [kind |-> "json", failAt |-> undefined], [kind |-> "arrow", failAt |-> undefined],
      [kind |-> "custom", failAt |-> Some(1)] }

\* config.footer
Footers ==
    { undefined,
      Some([complete |-> <<"a">>, truncated |-> <<"b">>, counts |-> TRUE]),
      Some([complete |-> <<"a", "a", "a", "a", "a", "a", "a", "a">>, truncated |-> <<"W">>,
            counts |-> FALSE]) }

PageBudgets == {undefined, Some(9)}

\* the paginated tables whose config.alternatingRows is one of alternating
PageTables(alternating) ==
    \E n \in 0..MaxPageCols : \E inp \in [1..n -> PageColumnInputs] :
    \E numRows \in 0..MaxRows : \E src \in Sources :
    \E off \in RowOffsets : \E lim \in RowLimits : \E ft \in Footers : \E mw \in PageBudgets :
    \E alt \in alternating : \E th \in StyleThemes :
        \* a JSONDataSource without rows has no columns
        /\ (src.kind = "json" /\ numRows = 0 => n = 0)
        \* an Arrow table without fields has no rows
        /\ (src.kind = "arrow" /\ n = 0 => numRows = 0)
        \* the tables with columns keep the default theme
        /\ (n > 0 => th = undefined)
        /\ pc = "render"
        /\ columnNames = [i \in 1..n |-> Names[i]]
        /\ rows = [r \in 1..numRows |->
                      [i \in 1..n |-> inp[i].cells[((r - 1) % Len(inp[i].cells)) + 1]]]
        /\ config = [maxWidth |-> mw, padding |-> undefined,
                     truncationChar |-> undefined, theme |-> th,
                     alternatingRows |-> alt, rowStyle |-> undefined,
                     rowOffset |-> off, rowLimit |-> lim, footer |-> ft,
                     columns |-> [i \in 1..n |-> inp[i].cfg]]
        /\ stdoutColumns = undefined
        /\ chalkLevel = 1
        /\ source = src
        /\ returned = << >>
        /\ requested = << >>
        /\ observed = << >>
        /\ idealWidths = << >>
        /\ finalWidths = << >>
        /\ contentWidth = 0
        /\ totalConstrainedWidth = 0
        /\ flexColumns = << >>
        /\ remainingSpace = 0
        /\ growthCycles = 0
        /\ excessWidth = 0
        /\ shrinkable = << >>
        /\ shrinkPos = 0
        /\ shrunkInCycle = FALSE
        /\ output = << >>

PageInit == PageTables({undefined})

SpecPage == PageInit /\ [][Next]_vars

\* ------------------------------------- the row source called directly
\* the indices a caller passes to getArrayRow
CallIndices == (0 - 1)..(MaxRows + 1)

\* source.getArrayRow(rowIndex), called once on a JSONDataSource or an
\* ArrowDataSource before the table is rendered
CallGetArrayRow ==
    /\ pc = "render"
    /\ requested = << >>
    /\ source.kind \in {"json", "arrow"}
    /\ \E rowIndex \in CallIndices :
           /\ requested' = <<[method |-> "getArrayRow", index |-> rowIndex]>>
           /\ returned' = Append(returned,
                  IF GetArrayRowThrows(rowIndex)
                  THEN [kind |-> "error", name |-> "Error", lines |-> << >>]
                  ELSE [kind |-> "row", name |-> "", lines |-> getArrayRow(rowIndex)])
    /\ UNCHANGED <<pc, source, observed, chalkLevel, columnNames, rows, config,
                   stdoutColumns,
                   idealWidths, finalWidths, contentWidth, totalConstrainedWidth,
                   flexColumns, remainingSpace, growthCycles, excessWidth, shrinkable,
                   shrinkPos, shrunkInCycle, output>>

SourceInit ==
    /\ PageInit
    /\ config.footer = undefined
    /\ config.rowLimit \in {undefined, Some(1)}

NextSource == Next \/ CallGetArrayRow

SpecSource == SourceInit /\ [][NextSource]_vars

\* ------------------------- conditional styles on formatted, paginated rows
\* (val) => "b": the text does not depend on the value
ConstFormatter == [prefix |-> <<"b">>, keep |-> FALSE, suffix |-> << >>, index |-> FALSE]

\* Columns with a formatter and a conditional cell style, and the raw values of the
\* column, row after row.
RawColumnInputs ==
    { [cfg |-> StyledCol(PlainCol, Some(PlainFormatter), undefined, Some(CellStyleOfB),
                         undefined),
       cells |-> <<(<<"b">>), (<<"a">>), (<<"b">>)>>],
      [cfg |-> StyledCol(PlainCol, Some(ConstFormatter), undefined, Some(CellStyleOfB),
                         undefined),
       cells |-> <<(<<"a">>), (<<"b">>), (<<"a">>)>>],
      [cfg |-> StyledCol(Col(undefined, undefined, undefined, undefined, Some(1), undefined),
                         Some(ConstFormatter), Some([underline |-> "true"]), undefined,
                         undefined),
       cells |-> <<(<<"b">>), (<<"a">>), (<<"a">>)>>] }

RawInit ==
    \E n \in 1..MaxStyleCols : \E inp \in [1..n -> RawColumnInputs] :
    \E rs \in RowStyles : \E off \in {undefined, Some(1)} : \E lim \in {undefined, Some(1)} :
    \E mw \in {undefined, Some(7)} :
        /\ pc = "render"
        /\ columnNames = [i \in 1..n |-> Names[i]]
        /\ rows = [r \in 1..MaxRows |->
                      [i \in 1..n |-> inp[i].cells[((r - 1) % Len(inp[i].cells)) + 1]]]
        /\ config = [maxWidth |-> mw, padding |-> undefined,
                     truncationChar |-> undefined, theme |-> undefined,
                     alternatingRows |-> undefined, rowStyle |-> rs,
                     rowOffset |-> off, rowLimit |-> lim, footer |-> undefined,
                     columns |-> [i \in 1..n |-> inp[i].cfg]]
        /\ stdoutColumns = undefined
        /\ chalkLevel = 1
        /\ source = [kind |-> "json", failAt |-> undefined]
        /\ returned = << >>
        /\ requested = << >>
        /\ observed = << >>
        /\ idealWidths = << >>
        /\ finalWidths = << >>
        /\ contentWidth = 0
        /\ totalConstrainedWidth = 0
        /\ flexColumns = << >>
        /\ remainingSpace = 0
        /\ growthCycles = 0
        /\ excessWidth = 0
        /\ shrinkable = << >>
        /\ shrinkPos = 0
        /\ shrunkInCycle = FALSE
        /\ output = << >>

SpecRaw == RawInit /\ [][Next]_vars

\* ------------------------------------------- render() called a second time
\* chalk.level: colours off, basic colours
ChalkLevels == {0, 1}

\* the caller calls render() again once the first call has ended; the locals of
\* render() and distributeWidths() are new in every call
RenderAgain ==
    /\ pc \in {"rendered", "threw", "nodata"}
    /\ Len(observed) = 1
    /\ pc' = "render"
    /\ idealWidths' = << >>
    /\ finalWidths' = << >>
    /\ contentWidth' = 0
    /\ totalConstrainedWidth' = 0
    /\ flexColumns' = << >>
    /\ remainingSpace' = 0
    /\ growthCycles' = 0
    /\ excessWidth' = 0
    /\ shrinkable' = << >>
    /\ shrinkPos' = 0
    /\ shrunkInCycle' = FALSE
    /\ output' = << >>
    /\ UNCHANGED <<source, requested, observed, returned, chalkLevel, columnNames, rows,
                   config, stdoutColumns>>

\* the terminal is resized between the two calls
Resize ==
    /\ pc \in {"rendered", "threw", "nodata"}
    /\ Len(observed) = 1
    /\ \E c \in StdoutColumns \ {stdoutColumns} : stdoutColumns' = c
    /\ UNCHANGED <<pc, source, requested, observed, returned, chalkLevel, columnNames, rows,
                   config, idealWidths, finalWidths, contentWidth, totalConstrainedWidth,
                   flexColumns, remainingSpace, growthCycles, excessWidth, shrinkable,
                   shrinkPos, shrunkInCycle, output>>

\* chalk.level is set between the two calls
SetChalkLevel ==
    /\ pc \in {"rendered", "threw", "nodata"}
    /\ Len(observed) = 1
    /\ \E l \in ChalkLevels \ {chalkLevel} : chalkLevel' = l
    /\ UNCHANGED <<pc, source, requested, observed, returned, stdoutColumns, columnNames,
                   rows, config, idealWidths, finalWidths, contentWidth,
                   totalConstrainedWidth, flexColumns, remainingSpace, growthCycles,
                   excessWidth, shrinkable, shrinkPos, shrunkInCycle, output>>

\* config.alternatingRows
AlternatingRows == {undefined, Some(TRUE), Some(FALSE)}

\* paginated tables with and without alternating rows
AltInit ==
    /\ PageTables(AlternatingRows)
    /\ config.footer = undefined
    /\ config.rowLimit \in {undefined, Some(2)}

SpecAlt == AltInit /\ [][Next]_vars

TwiceInit ==
    /\ PageInit
    /\ config.footer = undefined
    /\ config.rowLimit \in {undefined, Some(1)}
    /\ config.rowOffset \in {undefined, Some(1)}

NextTwice == Next \/ RenderAgain \/ Resize \/ SetChalkLevel

SpecTwice == TwiceInit /\ [][NextTwice]_vars

\* ------------------------------ tables with out-of-range configuration
MaxConfigCols == 2

\* Columns with a minimum above the maximum, negative widths and negative padding,
\* next to well-formed ones.
ConfigColumnInputs ==
    { [cfg |-> PlainCol, cell |-> <<"a", "b">>],
      [cfg |-> Col(undefined, undefined, Some(3), Some(1), undefined, undefined),
       cell |-> <<"a", "b">>],
      [cfg |-> Col(undefined, undefined, undefined, Some(-1), undefined, undefined),
       cell |-> <<"a", "b">>],
      [cfg |-> Col(Some(<< >>), undefined, Some(-2), undefined, undefined, undefined),
       cell |-> << >>],
      [cfg |-> Col(undefined, undefined, undefined, undefined, undefined,
                   Some([left |-> -1, right |-> 1])), cell |-> <<"a", "b">>],
      [cfg |-> Col(undefined, Some("center"), undefined, undefined, undefined,
                   Some([left |-> -1, right |-> 1])), cell |-> <<"a", "b">>],
      [cfg |-> Col(undefined, undefined, undefined, undefined, Some(1), undefined),
       cell |-> <<"a">>] }

\* config.maxWidth and config.padding
ConfigBudgets == {undefined, Some(4), Some(-1)}
ConfigPaddings == {undefined, Some([left |-> 0, right |-> -1])}

ConfigInit ==
    \E n \in 1..MaxConfigCols : \E inp \in [1..n -> ConfigColumnInputs] :
    \E mw \in ConfigBudgets : \E pad \in ConfigPaddings :
        /\ pc = "render"
        /\ columnNames = [i \in 1..n |-> Names[i]]
        /\ rows = << [i \in 1..n |-> inp[i].cell] >>
        /\ config = [maxWidth |-> mw, padding |-> pad,
                     truncationChar |-> undefined, theme |-> undefined,
                     alternatingRows |-> undefined, rowStyle |-> undefined,
                     rowOffset |-> undefined, rowLimit |-> undefined,
                     footer |-> undefined,
                     columns |-> [i \in 1..n |-> inp[i].cfg]]
        /\ stdoutColumns = undefined
        /\ chalkLevel = 0
        /\ source = [kind |-> "json", failAt |-> undefined]
        /\ returned = << >>
        /\ requested = << >>
        /\ observed = << >>
        /\ idealWidths = << >>
        /\ finalWidths = << >>
        /\ contentWidth = 0
        /\ totalConstrainedWidth = 0
        /\ flexColumns = << >>
        /\ remainingSpace = 0
        /\ growthCycles = 0
        /\ excessWidth = 0
        /\ shrinkable = << >>
        /\ shrinkPos = 0
        /\ shrunkInCycle = FALSE
        /\ output = << >>

SpecConfig == ConfigInit /\ [][Next]_vars

\* --------------------------------------- alignAndTruncateText on its own
MaxShapeWidth == 4
MaxTextLen == 3

\* texts of up to MaxTextLen narrow and wide letters, and a text between the
\* escape sequences ESC[31m and ESC[39m
ShapeTexts ==
    UNION {[1..k -> {"a", "W"}] : k \in 0..MaxTextLen}
    \cup {PreStyledFormatter.prefix \o <<"a", "b">> \o PreStyledFormatter.suffix}

ShapePaddings ==
    {undefined, Some([left |-> 0, right |-> 0]), Some([left |-> 2, right |-> 0])}

\* config.truncationChar: the default mark, "..", and one wide glyph
TruncationChars == {undefined, Some(<<".", ".">>), Some(<<"W">>)}

\* one cell of one column: the text, the assigned width, the alignment, the
\* padding (global or of the column) and the truncation mark
ShapeInit ==
    \E text \in ShapeTexts : \E w \in 0..MaxShapeWidth :
    \E al \in {undefined, Some("left"), Some("right"), Some("center")} :
    \E gp \in ShapePaddings : \E cp \in ShapePaddings : \E tc \in TruncationChars :
        /\ (IsDefined(gp) => cp = undefined)
        /\ pc = "shape"
        /\ columnNames = <<Names[1]>>
        /\ rows = << <<text>> >>
        /\ config = [maxWidth |-> undefined, padding |-> gp,
                     truncationChar |-> tc, theme |-> undefined,
                     alternatingRows |-> undefined, rowStyle |-> undefined,
                     rowOffset |-> undefined, rowLimit |-> undefined,
                     footer |-> undefined,
                     columns |-> <<Col(undefined, al, undefined, undefined, undefined, cp)>>]
        /\ stdoutColumns = undefined
        /\ chalkLevel = 0
        /\ idealWidths = << >>
        /\ finalWidths = <<w>>
        /\ contentWidth = 0
        /\ totalConstrainedWidth = 0
        /\ flexColumns = << >>
        /\ remainingSpace = 0
        /\ growthCycles = 0
        /\ excessWidth = 0
        /\ shrinkable = << >>
        /\ shrinkPos = 0
        /\ shrunkInCycle = FALSE
        /\ output = << >>
        /\ source = [kind |-> "json", failAt |-> undefined]
        /\ returned = << >>
        /\ requested = << >>
        /\ observed = << >>

\* a call alignAndTruncateText(text, width, alignment, 0)
AlignCell ==
    /\ pc = "shape"
    /\ output' = <<alignAndTruncateText(rows[1][1], finalWidths[1], AlignmentOf(1), 1)>>
    /\ pc' = "shaped"
    /\ UNCHANGED <<source, requested, observed, chalkLevel, columnNames, rows, config,
                   stdoutColumns, returned,
                   idealWidths, finalWidths,
                   contentWidth, totalConstrainedWidth, flexColumns, remainingSpace,
                   growthCycles, excessWidth, shrinkable, shrinkPos, shrunkInCycle>>

SpecShape == ShapeInit /\ [][AlignCell]_vars

\* ------------------------------------------- distributeWidths run to its end
\* the widest table of the termination check
MaxFairCols == 2

\* before new TableFormatter(source, config): no table yet
NewInit ==
    /\ pc = "new"
    /\ columnNames = << >>
    /\ rows = << >>
    /\ config = [maxWidth |-> undefined, padding |-> undefined,
                 truncationChar |-> undefined, theme |-> undefined,
                 alternatingRows |-> undefined, rowStyle |-> undefined,
                 rowOffset |-> undefined, rowLimit |-> undefined,
                 footer |-> undefined, columns |-> << >>]
    /\ stdoutColumns = undefined
    /\ chalkLevel = 0
    /\ idealWidths = << >>
    /\ finalWidths = << >>
    /\ contentWidth = 0
    /\ totalConstrainedWidth = 0
    /\ flexColumns = << >>
    /\ remainingSpace = 0
    /\ growthCycles = 0
    /\ excessWidth = 0
    /\ shrinkable = << >>
    /\ shrinkPos = 0
    /\ shrunkInCycle = FALSE
    /\ output = << >>
    /\ source = [kind |-> "json", failAt |-> undefined]
    /\ returned = << >>
    /\ requested = << >>
    /\ observed = << >>

\* new TableFormatter(source, config): the tables of Init of up to MaxFairCols columns
Construct ==
    /\ pc = "new"
    /\ \E n \in 1..MaxFairCols : \E inp \in [1..n -> ColumnInputs] :
       \E mw \in MaxWidths : \E so \in StdoutColumns :
           /\ (IsDefined(mw) => so = undefined)
           /\ columnNames' = [i \in 1..n |-> Names[i]]
           /\ rows' = << [i \in 1..n |-> inp[i].cell] >>
           /\ config' = [config EXCEPT !.maxWidth = mw,
                                       !.columns = [i \in 1..n |-> inp[i].cfg]]
           /\ stdoutColumns' = so
    /\ pc' = "render"
    /\ UNCHANGED <<source, chalkLevel, returned, requested, observed, idealWidths,
                   finalWidths, contentWidth, totalConstrainedWidth, flexColumns,
                   remainingSpace, growthCycles, excessWidth, shrinkable, shrinkPos,
                   shrunkInCycle, output>>

NextFair == Construct \/ Next

\* distributeWidths runs to its end once called: no step of its loops waits for
\* anything
SpecFair ==
    /\ NewInit
    /\ [][NextFair]_vars
    /\ WF_vars(GrowthIteration) /\ WF_vars(GrowthExit)
    /\ WF_vars(ShrinkBegin) /\ WF_vars(ShrinkVisit)

\* ================================================================ claims
\* What the claims speak about, read from the configuration alone.
Budget ==
    IF IsDefined(config.maxWidth) THEN config.maxWidth[1]
    ELSE IF IsDefined(stdoutColumns) THEN stdoutColumns[1] ELSE 80

ColumnPadding(i) ==
    IF IsDefined(config.columns[i].padding) THEN config.columns[i].padding[1]
    ELSE IF IsDefined(config.padding) THEN config.padding[1]
    ELSE [left |-> 1, right |-> 1]

PaddingSum == SumSeq([i \in ColIdx |-> ColumnPadding(i).left + ColumnPadding(i).right])

ContentBudget == Budget - (NumCols + 1) - PaddingSum

ConfiguredMin(i) ==
    IF IsDefined(config.columns[i].minWidth) THEN config.columns[i].minWidth[1] ELSE 1

MaxConfigured(i) == IsDefined(config.columns[i].maxWidth)
ConfiguredMax(i) == config.columns[i].maxWidth[1]

MinSum == SumSeq([i \in ColIdx |-> ConfiguredMin(i)])

\* the ideal width clamped into the column's bounds, the minimum winning
Clamped(i) ==
    LET capped == IF MaxConfigured(i) /\ idealWidths[i] > ConfiguredMax(i)
                  THEN ConfiguredMax(i) ELSE idealWidths[i]
    IN  IF capped < ConfiguredMin(i) THEN ConfiguredMin(i) ELSE capped

ClampedSum == SumSeq([i \in ColIdx |-> Clamped(i)])

IsFlex(i) == IsDefined(config.columns[i].flexGrow) /\ config.columns[i].flexGrow[1] # 0
Weight(i) == config.columns[i].flexGrow[1]
FlexCols == {i \in ColIdx : IsFlex(i)}

Satisfiable == MinSum + PaddingSum + NumCols + 1 <= Budget

Measured == pc \in {"growth", "shrink", "shrinkFor", "distributed", "rendered"}
Distributed == pc \in {"distributed", "rendered"}
GrowthEnded == pc \in {"shrink", "shrinkFor", "distributed", "rendered"}

LineWidths == [k \in 1..Len(output) |-> stringWidth(output[k])]

C3_ShrinkToFit ==
    (Distributed /\ ClampedSum > ContentBudget /\ MinSum <= ContentBudget)
        => /\ SumSeq(finalWidths) = ContentBudget
           /\ \A i \in ColIdx : finalWidths[i] >= ConfiguredMin(i)
           /\ pc = "rendered" =>
                 /\ LineWidths[1] = Budget
                 /\ \A k \in 1..Len(output) : LineWidths[k] <= Budget

\* two columns were shrunk, one of them down to its configured minimum
C3_Witness ==
    /\ pc = "rendered" /\ IsDefined(config.maxWidth)
    /\ ClampedSum > ContentBudget /\ MinSum <= ContentBudget
    /\ \E i, j \in ColIdx :
          /\ i # j
          /\ finalWidths[i] < Clamped(i) /\ finalWidths[j] < Clamped(j)
          /\ IsDefined(config.columns[i].minWidth) /\ finalWidths[i] = ConfiguredMin(i)

\* C4: when the minimums need more than the content budget, every column ends at
\* exactly its minimum and the table is wider than the budget.
C4_UnsatisfiableGivesMinimums ==
    (Distributed /\ MinSum > ContentBudget)
        => /\ \A i \in ColIdx : finalWidths[i] = ConfiguredMin(i)
           /\ pc = "rendered" => \A k \in 1..Len(output) : LineWidths[k] > Budget

\* an unsatisfiable budget with a column that was shrunk to a configured minimum
C4_Witness ==
    /\ pc = "rendered" /\ IsDefined(config.maxWidth) /\ MinSum > ContentBudget
    /\ \E i \in ColIdx : IsDefined(config.columns[i].minWidth) /\ Clamped(i) > ConfiguredMin(i)
    /\ \E i \in ColIdx : ~IsDefined(config.columns[i].minWidth) /\ Clamped(i) > 1

\* C5 as stated: with no flexible column and ideal widths that fit the budget,
\* the final widths are the ideal widths.
C5_NoFlexKeepsIdeal ==
    (Distributed /\ IsDefined(config.maxWidth) /\ FlexCols = {}
       /\ SumSeq(idealWidths) + PaddingSum + NumCols + 1 <= Budget)
        => finalWidths = idealWidths

\* C5 amended: with no flexible column and clamped widths that fit the budget, the
\* final widths are the ideal widths clamped into [minWidth (default 1), maxWidth];
\* a column keeps its ideal width exactly when that width lies within its bounds.
C5_NoFlexKeepsClamped ==
    (Distributed /\ FlexCols = {} /\ ClampedSum <= ContentBudget)
        => \A i \in ColIdx :
              /\ finalWidths[i] = Clamped(i)
              /\ finalWidths[i] = idealWidths[i]
                    <=> /\ idealWidths[i] >= ConfiguredMin(i)
                        /\ MaxConfigured(i) => idealWidths[i] <= ConfiguredMax(i)

\* no flexible column, everything fits, one column forced wider by its minWidth
\* and one cut down by its maxWidth
C5_Witness ==
    /\ pc = "distributed" /\ IsDefined(config.maxWidth) /\ FlexCols = {}
    /\ ClampedSum <= ContentBudget
    /\ \E i, j \in ColIdx : finalWidths[i] > idealWidths[i] /\ finalWidths[j] < idealWidths[j]

ExtraSpace == ContentBudget - ClampedSum

\* a maxWidth binds when it leaves the column less room than its first share
NotBinding(i) ==
    MaxConfigured(i) => ConfiguredMax(i) - Clamped(i) >= (ExtraSpace * Weight(i)) \div 3

Abs(x) == IF x < 0 THEN 0 - x ELSE x

TwoToOne(i, j) ==
    /\ FlexCols = {i, j} /\ i # j
    /\ Weight(i) = 2 /\ Weight(j) = 1
    /\ ExtraSpace > 0
    /\ NotBinding(i) /\ NotBinding(j)

\* C7: two flexible columns of weights 2 and 1 that share N > 0 extra units, no
\* maxWidth binding, grow by 2N/3 and N/3 within one unit; the other columns do
\* not grow and no flexible column ends above its maxWidth.
C7_FlexProportional ==
    GrowthEnded => \A i, j \in ColIdx :
        TwoToOne(i, j)
            => /\ Abs(3 * (finalWidths[i] - Clamped(i)) - 2 * ExtraSpace) <= 3
               /\ Abs(3 * (finalWidths[j] - Clamped(j)) - ExtraSpace) <= 3
               /\ \A k \in ColIdx \ {i, j} : finalWidths[k] = Clamped(k)
               /\ MaxConfigured(i) => finalWidths[i] <= ConfiguredMax(i)
               /\ MaxConfigured(j) => finalWidths[j] <= ConfiguredMax(j)

\* weights 2 and 1 beside a fixed column, after a growth of at least five units
C7_Witness ==
    /\ pc = "distributed" /\ NumCols = 3 /\ IsDefined(config.maxWidth)
    /\ \E i, j \in ColIdx : TwoToOne(i, j) /\ ExtraSpace >= 5
                            /\ finalWidths[i] > Clamped(i) /\ finalWidths[j] > Clamped(j)

\* C8 as stated: the growth phase ends only with no space left or with every
\* flexible column at its maxWidth.
C8_GrowthUsesAllSpace ==
    (GrowthEnded /\ ExtraSpace > 0)
        => \/ SumSeq(finalWidths) = ContentBudget
           \/ \A i \in FlexCols : MaxConfigured(i) /\ finalWidths[i] >= ConfiguredMax(i)

StillGrowable == {i \in FlexCols : MaxConfigured(i) => finalWidths[i] < ConfiguredMax(i)}

\* C8 amended: the growth phase ends only with no space left, with every flexible
\* column at its maxWidth, or when every remaining floor share is zero, which
\* leaves fewer units than there are columns that can still grow; until then the
\* space a capped column could not take goes to the columns that can still grow,
\* and growth never takes more than the extra space.
C8_GrowthLeavesLessThanGrowable ==
    (GrowthEnded /\ ExtraSpace > 0 /\ \A i \in FlexCols : Weight(i) > 0)
        => /\ SumSeq(finalWidths) <= ContentBudget
           /\ \/ SumSeq(finalWidths) = ContentBudget
              \/ StillGrowable = {}
              \/ ContentBudget - SumSeq(finalWidths) < Cardinality(StillGrowable)

\* a capped flexible column whose unused share went to the other one in a second
\* iteration, filling the budget
C8_Witness ==
    /\ pc = "distributed" /\ growthCycles >= 2 /\ ExtraSpace > 0
    /\ SumSeq(finalWidths) = ContentBudget
    /\ \E i, j \in FlexCols :
          /\ MaxConfigured(i) /\ finalWidths[i] = ConfiguredMax(i) /\ Clamped(i) < finalWidths[i]
          /\ ~MaxConfigured(j) /\ finalWidths[j] > Clamped(j)

\* ---------------------------------------------------------- styled cells
RowIdx == 1..Len(rows)

\* the four style sources of the cell in row r (counted from 1) and column i,
\* in ascending precedence: theme base, rowStyle(row), column.style, cellStyle(value)
StyleSources(r, i) ==
    <<baseRowStyle(r - 1), conditionalRowStyle(rows[r]), staticColumnStyle(i),
      conditionalCellStyle(i, rows[r][i])>>

\* the sources of the cell that carry attribute a
Defining(r, i, a) == {k \in 1..4 : a \in DOMAIN StyleSources(r, i)[k]}

TopSource(r, i, a) == CHOOSE k \in Defining(r, i, a) : \A j \in Defining(r, i, a) : j <= k

\* the style the precedence order gives the cell
PrecedenceStyle(r, i) ==
    [a \in {b \in Attributes : Defining(r, i, b) # {}} |->
        StyleSources(r, i)[TopSource(r, i, a)][a]]

\* the cell's text, aligned and truncated to the column's final width
ShapedCell(r, i) ==
    alignAndTruncateText(formattedDataWindow[r][i], finalWidths[i], AlignmentOf(i), i)

DataLineOf(cells) ==
    borderChars.vertical \o Join(cells, borderChars.cellSeparator) \o borderChars.vertical

\* the output line of data row r
DataLine(r) == output[3 + r]

PaddedOnly(cell, text) ==
    \E x \in 0..Len(cell) :
        /\ x + Len(text) <= Len(cell)
        /\ SubSeq(cell, x + 1, x + Len(text)) = text
        /\ \A k \in (1..x) \cup ((x + Len(text) + 1)..Len(cell)) : cell[k] = " "

\* the cell as renderRow emits it
RenderedCell(r, i) == applyStyle(ShapedCell(r, i), finalStyle(i, rows[r], r - 1))

PreStyled(r, i) ==
    IsDefined(ColConfig(i).formatter) /\ IncludesEscape(formattedDataWindow[r][i])

\* C10 (as claimed): the text a formatter returns with an escape sequence in it
\* appears in the data line unmodified, between the cell's padding spaces, and
\* no style is applied to it.
C10_PreStyledUnmodified ==
    pc = "rendered" =>
        \A r \in RowIdx :
            /\ DataLine(r) = DataLineOf([i \in ColIdx |-> RenderedCell(r, i)])
            /\ \A i \in ColIdx :
                   PreStyled(r, i) => PaddedOnly(RenderedCell(r, i), formattedDataWindow[r][i])

\* a pre-styled text wider than its column is rendered: it is cut, its closing
\* sequence lost
C10_Witness ==
    /\ pc = "rendered"
    /\ \E r \in RowIdx : \E i \in ColIdx :
          /\ PreStyled(r, i)
          /\ stringWidth(formattedDataWindow[r][i]) > finalWidths[i]
          /\ ~PaddedOnly(RenderedCell(r, i), formattedDataWindow[r][i])

\* ------------------------------------------------- alignAndTruncateText
ShapeText == rows[1][1]
ShapeWidth == finalWidths[1]
ShapeResult == output[1]
ShapeTotalWidth == ShapeWidth + PaddingOf(1).left + PaddingOf(1).right

\* the longest prefix of text whose display width is at most limit
LongestFittingPrefix(text, limit) ==
    LET fits == {k \in 0..Len(text) : stringWidth(SubSeq(text, 1, k)) <= limit}
    IN  SubSeq(text, 1, CHOOSE k \in fits : \A j \in fits : j <= k)

\* the result is exactly as wide as the column with its padding; a text wider
\* than the column shows as its longest fitting prefix and the mark or, in a
\* column narrower than the mark, as a prefix of the mark that fits
ShapedAsSpecified ==
    /\ stringWidth(ShapeResult) = ShapeTotalWidth
    /\ stringWidth(ShapeText) > ShapeWidth =>
          IF ShapeWidth >= stringWidth(truncationChar)
          THEN PaddedOnly(ShapeResult,
                   LongestFittingPrefix(ShapeText, ShapeWidth - stringWidth(truncationChar))
                       \o truncationChar)
          ELSE \E k \in 0..Len(truncationChar) :
                   /\ stringWidth(SubSeq(truncationChar, 1, k)) <= ShapeWidth
                   /\ PaddedOnly(ShapeResult, SubSeq(truncationChar, 1, k))

\* C11 (as claimed): for every text, width >= 0, alignment and padding the
\* result of alignAndTruncateText has display width width + padding.left +
\* padding.right, and a text wider than the width shows as the longest prefix
\* that fits in width minus the mark's width followed by the mark, or as a
\* fitting prefix of the mark when the width is smaller than the mark.
C11_TruncationAsSpecified == pc = "shaped" => ShapedAsSpecified

\* the same for texts without an escape character
C11_PlainTextTruncation ==
    (pc = "shaped" /\ \A k \in 1..Len(ShapeText) : ShapeText[k] # "E") => ShapedAsSpecified

\* a text with escape sequences is cut in a column as wide as the mark: the
\* scan stops inside the opening sequence although the whole sequence would fit
C11_Witness ==
    /\ pc = "shaped"
    /\ IncludesEscape(ShapeText)
    /\ stringWidth(ShapeText) > ShapeWidth
    /\ ShapeWidth = stringWidth(truncationChar)
    /\ ~ShapedAsSpecified

\* a plain text wider than its column, cut to a prefix and the mark
C11_PlainWitness ==
    /\ pc = "shaped"
    /\ \A k \in 1..Len(ShapeText) : ShapeText[k] # "E"
    /\ stringWidth(ShapeText) > ShapeWidth
    /\ ShapeWidth > stringWidth(truncationChar)
    /\ ShapedAsSpecified

\* ------------------------------------------------------------ pagination
\* the window the documentation gives: offset default 0, limit default all rows
PageStart == Max2(0, Nullish(config.rowOffset, 0))
PageEnd == Min2(Len(rows), PageStart + Nullish(config.rowLimit, Len(rows)))
PageRows == {r \in 0..(Len(rows) - 1) : PageStart <= r /\ r < PageEnd}

\* the display text of column i in the source row r
PageCellText(r, i) == FormatCell(i, getArrayRow(r)[i], r)

\* the line of the source row r
PageLine(r) ==
    renderRow([i \in ColIdx |-> PageCellText(r, i)], getObjectRow(r), finalWidths, r)

\* the lines of the output between the header separator and the closing lines
PageDataLines ==
    SubSeq(output, 4, Len(output) - (IF IsDefined(config.footer) THEN 3 ELSE 1))

\* the widest of the header and the window's texts of column i
PageIdealWidth(i) ==
    LET ws == {stringWidth(headerLabels[i])} \cup {stringWidth(PageCellText(r, i)) : r \in PageRows}
    IN  CHOOSE w \in ws : \A v \in ws : v <= w

\* C12: the data lines of a rendered table are the lines of the source rows
\* startRow..endRow-1 (startRow = max(0, offset), endRow = min(totalRows,
\* startRow + limit)), each once and in increasing order, and the ideal widths
\* are measured over the header and these rows only.
C12_WindowRowsOnly ==
    pc = "rendered" =>
        /\ PageRows # {} =>
               /\ Len(PageDataLines) = PageEnd - PageStart
               /\ \A k \in 1..Len(PageDataLines) : PageDataLines[k] = PageLine(PageStart + k - 1)
        /\ \A i \in ColIdx : idealWidths[i] = PageIdealWidth(i)

\* a window with rows before and after it, one of them wider than its column
C12_Witness ==
    /\ pc = "rendered"
    /\ PageStart > 0
    /\ PageStart < PageEnd
    /\ PageEnd < Len(rows)
    /\ \E r \in 0..(Len(rows) - 1) : \E i \in ColIdx :
           r \notin PageRows /\ stringWidth(PageCellText(r, i)) > idealWidths[i]

\* --------------------------------------------------- configuration errors
MinAboveMax(i) ==
    IsDefined(ColConfig(i).minWidth) /\ HasMax(i) /\ ColConfig(i).minWidth[1] > MaxOf(i)

NegativeWidth(i) ==
    \/ IsDefined(ColConfig(i).minWidth) /\ ColConfig(i).minWidth[1] < 0
    \/ HasMax(i) /\ MaxOf(i) < 0

NegativePadding(i) == PaddingOf(i).left < 0 \/ PaddingOf(i).right < 0

InvalidConfiguration ==
    \/ \E i \in ColIdx : MinAboveMax(i) \/ NegativeWidth(i) \/ NegativePadding(i)
    \/ IsDefined(config.maxWidth) /\ config.maxWidth[1] < 0

\* the call of render() has ended
RenderEnded == pc \in {"rendered", "threw"}
LastReturned == returned[Len(returned)]

\* C13: with a minWidth above the maxWidth, a negative width or a negative padding,
\* render() ends with a ConfigurationError and never with a table.
C13_ConfigurationErrorRaised ==
    (RenderEnded /\ InvalidConfiguration) =>
        /\ pc = "threw"
        /\ LastReturned.kind = "error"
        /\ LastReturned.name = "ConfigurationError"

\* a table rendered although a column's left padding is negative
C13_Witness ==
    /\ pc = "rendered"
    /\ \E i \in ColIdx : PaddingOf(i).left < 0
    /\ LastReturned.kind = "text"

\* what the code does instead: the only error of such a configuration is the
\* RangeError of a negative repeat count, raised while the lines are built, and a
\* minWidth above the maxWidth alone always gives a table whose column has minWidth
C13_OnlyRangeErrors ==
    /\ pc = "threw" =>
           /\ LastReturned.name = "RangeError"
           /\ \E i \in ColIdx : NegativeWidth(i) \/ NegativePadding(i)
    /\ (RenderEnded /\ \A i \in ColIdx : ~NegativeWidth(i) /\ ~NegativePadding(i)) =>
           /\ pc = "rendered"
           /\ \A i \in ColIdx : MinAboveMax(i) => finalWidths[i] = MinOf(i)

\* a RangeError ended the call
C13_RangeErrorWitness == pc = "threw" /\ LastReturned.name = "RangeError"

\* a table whose column has a minWidth above its maxWidth
C13_MinAboveMaxWitness == pc = "rendered" /\ \E i \in ColIdx : MinAboveMax(i)

\* ------------------------------------------------------ row source errors
\* the direct call of getArrayRow, when one was made: its index and its result
DirectCall == requested # << >> /\ returned # << >> /\ returned[1].kind \in {"row", "error"}
DirectIndex == requested[1].index
OutOfRange(rowIndex) == rowIndex < 0 \/ rowIndex >= Len(rows)

\* render() ended because the source threw: nothing is returned, the index that
\* failed was asked for once, and no row was asked for after it
ErrorPropagates ==
    (pc = "threw" /\ LastReturned.name = "Error") =>
        /\ output = << >>
        /\ \A k \in 1..Len(returned) : returned[k].kind # "text"
        /\ LET last == requested[Len(requested)]
           IN  /\ last.method = "getArrayRow"
               /\ source.failAt = Some(last.index)
               /\ \A k \in 1..(Len(requested) - 1) : requested[k].index # last.index

\* C14 as stated: getArrayRow fails for every index outside [0, rowCount), and a
\* failure of the source ends render() with that error and without a text.
C14_OutOfRangeAlwaysFails ==
    /\ (DirectCall /\ OutOfRange(DirectIndex)) => returned[1].kind = "error"
    /\ ErrorPropagates

\* C14 amended: JSONDataSource.getArrayRow fails exactly for the indices outside
\* [0, rowCount); ArrowDataSource.getArrayRow never fails and returns a row of
\* nulls for such an index; a failure of the source ends render() with that error
\* and without a text.
C14_SourceErrors ==
    /\ (DirectCall /\ source.kind = "json") =>
           (returned[1].kind = "error" <=> OutOfRange(DirectIndex))
    /\ (DirectCall /\ source.kind = "arrow") =>
           /\ returned[1].kind = "row"
           /\ OutOfRange(DirectIndex) => returned[1].lines = [i \in ColIdx |-> NullValue]
    /\ ErrorPropagates

\* an ArrowDataSource asked for a row outside its range
C14_Witness ==
    /\ DirectCall
    /\ source.kind = "arrow"
    /\ OutOfRange(DirectIndex)
    /\ returned[1].kind = "row"

\* a JSONDataSource asked for a row outside its range
C14_JsonWitness ==
    DirectCall /\ source.kind = "json" /\ OutOfRange(DirectIndex) /\ returned[1].kind = "error"

\* a render() ended by the failure of the second row it asked for
C14_PropagationWitness ==
    /\ pc = "threw"
    /\ LastReturned.name = "Error"
    /\ Len(requested) >= 2
    /\ requested[Len(requested) - 1].method = "getArrayRow"

\* ------------------------------------------------------------ determinism
IsRenderResult(r) == r.kind \in {"text", "error"}
IsWidthsResult(r) == r.kind = "widths"
\* what the render() calls and the distributeWidths() calls returned, in order
RenderResults == SelectSeq(returned, IsRenderResult)
WidthsResults == SelectSeq(returned, IsWidthsResult)

\* the ideal widths as measured, while distributeWidths works and after it
IdealUnmodified ==
    pc \in {"growth", "shrink", "shrinkFor", "distributed", "rendered"} =>
        idealWidths = calculateColumnWidths(headerLabels, formattedDataWindow)

GivenAttributes(slot) ==
    IF IsDefined(config.theme) /\ slot \in DOMAIN config.theme[1]
    THEN DOMAIN config.theme[1][slot] ELSE {}

\* attribute by attribute: the configured value where one is given, else the default
ExpectedSlot(slot) ==
    [a \in GivenAttributes(slot) \cup DOMAIN DEFAULT_THEME[slot] |->
        IF a \in GivenAttributes(slot) THEN config.theme[1][slot][a]
        ELSE DEFAULT_THEME[slot][a]]

\* the header line as the expected header style renders it
ExpectedHeaderLine ==
    LET cells == [i \in ColIdx |->
            LET aligned == alignAndTruncateText(headerLabels[i], finalWidths[i],
                                                AlignmentOf(i), i)
                style == MergeStyle(ExpectedSlot("header"),
                                    Nullish(ColConfig(i).headerStyle, EmptyStyle))
            IN  IF IsBlank(aligned) THEN aligned ELSE applyStyle(aligned, style)]
    IN  <<"|">> \o Join(cells, <<"|">>) \o <<"|">>

\* C16: every theme slot is its default overridden attribute by attribute by the
\* configured slot; a slot that is not configured is its default; the header line
\* of a rendered table shows the merged header style.
C16_ThemeMerge ==
    /\ \A slot \in ThemeSlots : theme[slot] = ExpectedSlot(slot)
    /\ \A slot \in ThemeSlots : GivenAttributes(slot) = {} => theme[slot] = DEFAULT_THEME[slot]
    /\ pc = "rendered" => output[2] = ExpectedHeaderLine

\* part occurs in line
HasInfix(line, part) ==
    \E k \in 0..(Len(line) - Len(part)) : SubSeq(line, k + 1, k + Len(part)) = part

\* a header configured with a colour only, rendered bold and in that colour
C16_Witness ==
    /\ pc = "rendered"
    /\ chalkLevel = 1
    /\ GivenAttributes("header") = {"color"}
    /\ GivenAttributes("cell") = {}
    /\ theme.header.bold = "true"
    /\ HasInfix(output[2], Sgr(AnsiCodes.red.open) \o Sgr(AnsiCodes.bold.open))

\* -------------------------------------------------------- alternating rows
\* the base style the documentation gives the row with index rowIndex
ExpectedBaseStyle(rowIndex) ==
    IF config.alternatingRows = Some(TRUE) /\ rowIndex % 2 = 1
    THEN theme.alternatingCell ELSE theme.cell

\* the line of the source row rowIndex in its expected base style; the columns of
\* these tables have no styles of their own
ExpectedBaseLine(rowIndex) ==
    LET cells == [i \in ColIdx |->
            applyStyle(alignAndTruncateText(PageCellText(rowIndex, i), finalWidths[i],
                                            AlignmentOf(i), i),
                       ExpectedBaseStyle(rowIndex))]
    IN  <<"|">> \o Join(cells, <<"|">>) \o <<"|">>

\* C17: with alternatingRows enabled the rows of odd index are rendered in
\* theme.alternatingCell and the rows of even index in theme.cell; without it
\* every row is rendered in theme.cell.
C17_AlternatingRows ==
    (pc = "rendered" /\ PageRows # {}) =>
        \A k \in 1..Len(PageDataLines) :
            PageDataLines[k] = ExpectedBaseLine(PageStart + k - 1)

\* rows 1 and 2 displayed with alternating rows and colours on: the first
\* displayed row is gray, the second is not
C17_Witness ==
    /\ pc = "rendered"
    /\ config.alternatingRows = Some(TRUE)
    /\ PageStart = 1
    /\ PageEnd = 3
    /\ HasInfix(PageDataLines[1], Sgr(AnsiCodes.gray.open))
    /\ ~HasInfix(PageDataLines[2], Sgr(AnsiCodes.gray.open))

\* ------------------------------------------------------ cell display text
\* the display text the documentation gives a raw value without a formatter:
\* compact JSON for a structured value, the empty text for null and for an
\* absent value, the value in text form otherwise
ExpectedPlainText(cell) ==
    CASE cell = <<"null">> -> << >>
      [] cell = <<"undefined">> -> << >>
      [] cell = <<"boolean", "true">> -> <<"t", "r", "u", "e">>
      [] cell = <<"boolean", "false">> -> <<"f", "a", "l", "s", "e">>
      [] cell = <<"object", "a", "1", "b", "2">> ->
             <<"{", "\"", "a", "\"", ":", "1", ",", "\"", "b", "\"", ":", "2", "}">>
      [] cell # << >> /\ cell[1] = "number" -> SubSeq(cell, 2, Len(cell))
      [] OTHER -> cell

\* the display text of column i in the source row rowIndex: the formatter's result
\* for the raw value and the row's index, or the text of the raw value
ExpectedCellText(rowIndex, i) ==
    LET raw == getArrayRow(rowIndex)[i]
    IN  IF IsDefined(ColConfig(i).formatter)
        THEN ApplyFormatter(ColConfig(i).formatter[1], raw, rowIndex)
        ELSE ExpectedPlainText(raw)

\* C18: every cell of a data line shows the formatter's result for the raw value
\* and the absolute row index when the column has a formatter, and otherwise the
\* compact JSON of a structured value, the text form of a scalar, or nothing for
\* null and absent values.
C18_CellDisplayText ==
    (pc = "rendered" /\ PageRows # {}) =>
        \A k \in 1..Len(PageDataLines) :
            LET r == PageStart + k - 1
            IN  PageDataLines[k] =
                    renderRow([i \in ColIdx |-> ExpectedCellText(r, i)], getObjectRow(r),
                              finalWidths, r)

\* a window that starts at row 1 and shows a formatted cell, a structured value
\* and an absent value
C18_Witness ==
    /\ pc = "rendered"
    /\ PageStart = 1
    /\ PageEnd = 3
    /\ \E i \in ColIdx : IsDefined(ColConfig(i).formatter)
    /\ \E i \in ColIdx : \E r \in PageRows :
           ~IsDefined(ColConfig(i).formatter) /\ TagOf(rows[r + 1][i]) \in {"object", "undefined"}

\* ------------------------------------------------------------ isTruncated
\* a row limit is configured and is smaller than the number of rows of the source
ExpectedTruncated == IsDefined(config.rowLimit) /\ config.rowLimit[1] < Len(rows)

\* the footer line of a rendered table: the line before the last
FooterLine == output[Len(output) - 1]

\* the footer line of a callback that is told isTruncated = ExpectedTruncated
ExpectedFooterLine ==
    LET info == [footerInfo EXCEPT !.isTruncated = ExpectedTruncated]
        text == ApplyFooter(config.footer[1], info)
    IN  <<"|">> \o applyStyle(PadEnd(<<" ">> \o text, totalInnerWidth), theme.footer) \o <<"|">>

\* C19: the footer callback is told isTruncated = TRUE exactly when a row limit is
\* configured and is smaller than the number of rows of the source, whatever the
\* offset; the footer line shows the text the callback returns for that value.
C19_IsTruncated ==
    /\ footerInfo.isTruncated = ExpectedTruncated
    /\ (pc = "rendered" /\ IsDefined(config.footer)) => FooterLine = ExpectedFooterLine

\* a footer that reports a truncated table: limit 1, three rows
C19_Witness ==
    /\ pc = "rendered"
    /\ IsDefined(config.footer)
    /\ config.rowLimit = Some(1)
    /\ Len(rows) = 3
    /\ HasInfix(FooterLine, <<" ">> \o config.footer[1].truncated)
    /\ config.footer[1].truncated # config.footer[1].complete

\* a footer that reports a complete table although the offset hides a row
C19_OffsetWitness ==
    /\ pc = "rendered"
    /\ IsDefined(config.footer)
    /\ config.rowLimit = undefined
    /\ config.rowOffset = Some(1)
    /\ Len(rows) = 3
    /\ HasInfix(FooterLine, <<" ">> \o config.footer[1].complete)

\* ----------------------------------------------- line widths with a footer
\* the footer callback's text behind its leading space
FooterContent == <<" ">> \o ApplyFooter(config.footer[1], footerInfo)

\* C20: all lines of a table rendered with a footer have the same display width.
C20_EqualLineWidthWithFooter ==
    (pc = "rendered" /\ IsDefined(config.footer)) =>
        \A k \in 1..Len(output) : stringWidth(output[k]) = stringWidth(output[1])

\* a footer line wider than the top border
C20_Witness ==
    /\ pc = "rendered"
    /\ IsDefined(config.footer)
    /\ stringWidth(FooterLine) > stringWidth(output[1])

\* what the code does: every line but the footer line is totalInnerWidth + 2 wide;
\* the footer content is filled up to totalInnerWidth code units and never cut, so
\* the footer line is as wide as the others exactly when the content is no longer
\* than totalInnerWidth and has no glyph that is two columns wide
C20_FooterLineWidth ==
    (pc = "rendered" /\ IsDefined(config.footer)) =>
        /\ \A k \in 1..Len(output) :
               k # Len(output) - 1 => stringWidth(output[k]) = totalInnerWidth + 2
        /\ stringWidth(FooterLine) =
               2 + Max2(Len(FooterContent), totalInnerWidth)
                 + (stringWidth(FooterContent) - Len(FooterContent))

\* a footer that fits: all lines are equally wide
C20_FittingWitness ==
    /\ pc = "rendered"
    /\ IsDefined(config.footer)
    /\ Len(FooterContent) < totalInnerWidth
    /\ \A k \in 1..Len(output) : stringWidth(output[k]) = stringWidth(output[1])

\* a footer of two code units with a glyph two columns wide, filled up to the
\* inner width and one column too wide
C20_WideGlyphWitness ==
    /\ pc = "rendered"
    /\ IsDefined(config.footer)
    /\ Len(FooterContent) < totalInnerWidth
    /\ stringWidth(FooterLine) = stringWidth(output[1]) + 1

\* ------------------------------------------------------------ zero columns
\* the placeholder text in the cell style of the merged theme
ExpectedPlaceholder ==
    applyStyle(<<"(", "N", "o", " ", "d", "a", "t", "a", ")">>, ExpectedSlot("cell"))

\* C21: when the source reports no columns, render() ends without an error, its
\* result is the single line "(No data)" in the theme's cell style and nothing
\* else, and no row has been requested from the source.
C21_NoColumnsPlaceholder ==
    (NumCols = 0 /\ pc # "render") =>
        /\ pc = "nodata"
        /\ output = <<ExpectedPlaceholder>>
        /\ stripAnsi(output[1]) = <<"(", "N", "o", " ", "d", "a", "t", "a", ")">>
        /\ returned = <<[kind |-> "text", name |-> "", lines |-> output]>>
        /\ requested = << >>

\* a source with rows and a footer but without columns, rendered in a green, underlined cell style
C21_Witness ==
    /\ pc = "nodata"
    /\ NumCols = 0
    /\ Len(rows) = MaxRows
    /\ IsDefined(config.footer)
    /\ HasInfix(output[1], Sgr(AnsiCodes.green.open) \o Sgr(AnsiCodes.underline.open)
                                \o <<"(", "N", "o">>)
    /\ requested = << >>

\* ------------------------------------------------------------ empty window
\* a row of cells that hold spaces only, each as wide as its column and its padding
BlankRow ==
    <<"|">> \o Join([i \in ColIdx |-> Repeat(" ", PaddingOf(i).left + finalWidths[i] + PaddingOf(i).right)], <<"|">>)
            \o <<"|">>

\* C22: with columns and an empty window (no rows, an offset at or beyond the row
\* count, a limit of 0 or below), render() ends without an error and the output
\* has exactly one data line, between the header separator and the closing lines,
\* whose cells are spaces filling each column's width and padding.
C22_EmptyWindowRow ==
    (NumCols > 0 /\ PageRows = {} /\ pc \in {"rendered", "threw"}) =>
        /\ pc = "rendered"
        /\ Len(PageDataLines) = 1
        /\ stripAnsi(output[4]) = BlankRow
        /\ requested = << >>

\* three rows and an offset beyond them, rendered with a footer
C22_Witness ==
    /\ pc = "rendered"
    /\ NumCols = MaxPageCols
    /\ Len(rows) = MaxRows
    /\ config.rowOffset = Some(MaxRows + 1)
    /\ IsDefined(config.footer)
    /\ PageRows = {}
    /\ Len(output) = 7
    /\ stripAnsi(output[4]) = BlankRow

\* a source with columns and no row at all, rendered
C22_NoRowsWitness ==
    /\ pc = "rendered"
    /\ Len(rows) = 0
    /\ Len(output) = 5
    /\ stripAnsi(output[4]) = BlankRow

\* ------------------------------------------------------------ output structure
\* the cells of a border line: every column's width and padding in horizontal lines
BorderCells == [i \in ColIdx |-> Repeat("-", PaddingOf(i).left + finalWidths[i] + PaddingOf(i).right)]

\* a border line with a junction between the columns
JunctionLine(left, junction, right) == <<left>> \o Join(BorderCells, <<junction>>) \o <<right>>

\* a border line without junctions, as wide as the junction lines
SolidLine(left, right) ==
    <<left>> \o Repeat("-", Len(Join(BorderCells, <<"-">>))) \o <<right>>

\* the number of data lines: one per window row, one for an empty window
ExpectedDataLines == IF PageRows = {} THEN 1 ELSE Cardinality(PageRows)

\* C23: a rendered table is, in this order: the top border, the header line, the
\* header separator, one line per window row in increasing row order (one blank
\* row for an empty window), and then either the bottom border with junctions
\* (no footer) or a separator with junctions, the footer line and a solid bottom
\* border without junctions; 3 + max(1, window size) + (3 with a footer, else 1)
\* lines in all.
C23_OutputStructure ==
    pc = "rendered" =>
        LET n == Len(output)
        IN  /\ n = 3 + ExpectedDataLines + (IF IsDefined(config.footer) THEN 3 ELSE 1)
            /\ output[1] = JunctionLine("tl", "ts", "tr")
            /\ output[2] = ExpectedHeaderLine
            /\ output[3] = JunctionLine("hl", "ms", "hr")
            /\ PageRows # {} =>
                   \A k \in 1..ExpectedDataLines : output[3 + k] = PageLine(PageStart + k - 1)
            /\ PageRows = {} => stripAnsi(output[4]) = BlankRow
            /\ ~IsDefined(config.footer) => output[n] = JunctionLine("bl", "bs", "br")
            /\ IsDefined(config.footer) =>
                   /\ output[n - 2] = JunctionLine("hl", "bs", "hr")
                   /\ output[n - 1][1] = "|"
                   /\ output[n - 1][Len(output[n - 1])] = "|"
                   /\ HasInfix(output[n - 1], FooterContent)
                   /\ output[n] = SolidLine("bl", "br")

\* two columns, two window rows and a footer: 8 lines, the last without a junction
C23_Witness ==
    /\ pc = "rendered"
    /\ NumCols = 2
    /\ Cardinality(PageRows) = 2
    /\ IsDefined(config.footer)
    /\ Len(output) = 8
    /\ output[6] = JunctionLine("hl", "bs", "hr")
    /\ output[8] = SolidLine("bl", "br")
    /\ output[8] # JunctionLine("bl", "bs", "br")

\* two columns and three window rows without a footer: 7 lines, closed with junctions
C23_NoFooterWitness ==
    /\ pc = "rendered"
    /\ NumCols = 2
    /\ Cardinality(PageRows) = 3
    /\ ~IsDefined(config.footer)
    /\ Len(output) = 7
    /\ output[7] = JunctionLine("bl", "bs", "br")

\* ------------------------------------------------------------ row access order
\* the indices requested through one method of the row source, in call order
RequestedBy(method) ==
    LET RECURSIVE From(_)
        From(k) == IF k > Len(requested) THEN << >>
                   ELSE (IF requested[k].method = method THEN <<requested[k].index>> ELSE << >>)
                        \o From(k + 1)
    IN  From(1)

StrictlyIncreasing(s) == \A j, k \in 1..Len(s) : j < k => s[j] < s[k]

\* the window's row indices in increasing order
PageRowSeq == [k \in 1..Cardinality(PageRows) |-> PageStart + k - 1]

\* C24 as stated: the row indices requested from the row source during one
\* render() are strictly increasing over the whole call.
C24_RequestsStrictlyIncreasing ==
    StrictlyIncreasing([k \in 1..Len(requested) |-> requested[k].index])

\* C24: during one render() the row source is read in two passes, first every
\* getArrayRow call, then every getObjectRow call; within each pass the indices are
\* strictly increasing, and a table that is rendered has read every window row
\* exactly once in each pass.
C24_IncreasingWithinEachPass ==
    /\ StrictlyIncreasing(RequestedBy("getArrayRow"))
    /\ StrictlyIncreasing(RequestedBy("getObjectRow"))
    /\ \A j, k \in 1..Len(requested) :
           (j < k /\ requested[j].method = "getObjectRow") => requested[k].method = "getObjectRow"
    /\ pc = "rendered" =>
           /\ RequestedBy("getArrayRow") = PageRowSeq
           /\ RequestedBy("getObjectRow") = PageRowSeq
           /\ Len(requested) = 2 * Cardinality(PageRows)

\* a window of two rows behind an offset, rendered: rows 1, 2 are requested as
\* arrays and then again as objects
C24_Witness ==
    /\ pc = "rendered"
    /\ config.rowOffset = Some(1)
    /\ [k \in 1..Len(requested) |-> requested[k].index] = <<1, 2, 1, 2>>
    /\ requested[2].method = "getArrayRow"
    /\ requested[3].method = "getObjectRow"

\* ------------------------------------------------------------ window-only access
\* a row source that keeps the contract of ITableDataSource for the rows it has
ConformingSource == source.kind \in {"json", "arrow"}

\* C25: whatever rowOffset and rowLimit are (absent, negative, 0, beyond the row
\* count), every index render() passes to getArrayRow or getObjectRow is a row of
\* the window [startRow, endRow) and a row the source has, so a conforming source
\* never fails with an index out of range.
C25_WindowOnlyAccess ==
    /\ \A k \in 1..Len(requested) :
           /\ requested[k].index \in PageRows
           /\ 0 <= requested[k].index /\ requested[k].index < Len(rows)
    /\ ConformingSource =>
           \A k \in 1..Len(returned) : ~(returned[k].kind = "error" /\ returned[k].name = "Error")

\* a JSON source of three rows rendered with a negative offset and a limit of 2:
\* rows 0 and 1 are read, row 2 is not
C25_Witness ==
    /\ pc = "rendered"
    /\ source.kind = "json"
    /\ Len(rows) = MaxRows
    /\ config.rowOffset = Some(-1)
    /\ config.rowLimit = Some(2)
    /\ {requested[k].index : k \in 1..Len(requested)} = {0, 1}

\* an offset beyond the rows and a negative limit: nothing is read
C25_BeyondWitness ==
    /\ pc = "rendered"
    /\ source.kind = "json"
    /\ Len(rows) = MaxRows
    /\ config.rowOffset = Some(MaxRows + 1)
    /\ config.rowLimit = Some(-1)
    /\ requested = << >>

\* ------------------------------------------------------------ shrink order
\* the column a shrink step takes a unit from
Reduced(c) == finalWidths' = [finalWidths EXCEPT ![c] = @ - 1]

\* a step of the shrink phase that changes a width
ShrinkStep == pc = "shrinkFor" /\ finalWidths' # finalWidths

\* column i can still shrink
AboveMinimum(i) == finalWidths[i] > MinOf(i)

\* the width of column i when the shrink phase began, and what it has lost since
ShrinkStartWidth(i) ==
    IF \E k \in 1..Len(shrinkable) : shrinkable[k].index = i
    THEN (CHOOSE col \in {shrinkable[k] : k \in 1..Len(shrinkable)} : col.index = i).width
    ELSE finalWidths[i]
Removed(i) == ShrinkStartWidth(i) - finalWidths[i]

\* d comes before c in the order of the shrink passes: wider when the phase began,
\* or as wide and further left
VisitedBefore(d, c) ==
    \/ ShrinkStartWidth(d) > ShrinkStartWidth(c)
    \/ ShrinkStartWidth(d) = ShrinkStartWidth(c) /\ d < c

\* C26 as stated: every unit is removed from a column whose current width is the
\* largest among the columns still above their minimum, so no narrower column is
\* reduced while a wider column can shrink.
C26_WidestShrinksFirst ==
    [][ShrinkStep =>
          \E c \in ColIdx :
              /\ Reduced(c)
              /\ \A d \in ColIdx : AboveMinimum(d) => finalWidths[d] <= finalWidths[c]]_vars

\* C26: every shrink step takes exactly one unit from one column that is above its
\* minimum; the columns are visited in passes, in the order of their widths when
\* the phase began (descending, ties by column order), and each pass takes one
\* unit from every column still above its minimum: when a column is reduced,
\* every column before it in that order that can still shrink has lost one unit
\* more, and every column after it that can still shrink has lost as many.
C26_RoundRobinShrink ==
    [][ShrinkStep =>
          \E c \in ColIdx :
              /\ Reduced(c)
              /\ AboveMinimum(c)
              /\ excessWidth > 0 /\ excessWidth' = excessWidth - 1
              /\ \A d \in ColIdx \ {c} :
                     AboveMinimum(d) =>
                         Removed(d) = Removed(c) + (IF VisitedBefore(d, c) THEN 1 ELSE 0)]_vars

\* a narrower column has been reduced although a column at least two units wider
\* could still shrink
C26_Witness ==
    /\ pc = "distributed"
    /\ \E c, d \in ColIdx :
           /\ Removed(c) >= 1
           /\ AboveMinimum(d)
           /\ finalWidths[d] >= finalWidths[c] + 2

\* ------------------------------------------------------------ termination
\* a growth iteration after which the loop goes on
GrowthContinues == pc = "growth" /\ pc' = "growth"

\* a step of the shrink loop after which the loop goes on
ShrinkContinues == pc = "shrinkFor" /\ pc' = "shrinkFor"

\* the step ends a pass over the shrinkable columns
PassEnds == pc = "shrinkFor" /\ shrinkPos' = 1

\* C27: distributeWidths terminates. A growth iteration after which the loop goes
\* on has distributed at least one unit and has lowered the remaining space by
\* what it distributed, never below 0. In the shrink loop a unit is removed while
\* the excess is positive and lowers it by one; a step that removes nothing moves
\* on to the next column; a pass after which the loop goes on has removed at
\* least one unit. Once distributeWidths has started it returns.
C27_DistributionTerminates ==
    /\ [][GrowthContinues =>
            /\ SumSeq(finalWidths') - SumSeq(finalWidths) >= 1
            /\ remainingSpace' = remainingSpace - (SumSeq(finalWidths') - SumSeq(finalWidths))
            /\ remainingSpace' >= 0]_vars
    /\ [][pc = "shrinkFor" =>
            /\ finalWidths' # finalWidths =>
                   /\ excessWidth > 0
                   /\ excessWidth' = excessWidth - 1
                   /\ SumSeq(finalWidths') = SumSeq(finalWidths) - 1
            /\ (ShrinkContinues /\ finalWidths' = finalWidths /\ ~PassEnds) =>
                   shrinkPos' = shrinkPos + 1
            \* the pass has removed a unit exactly when shrunkInCycle or this step says so
            /\ shrunkInCycle' => (shrunkInCycle \/ finalWidths' # finalWidths)
            /\ PassEnds => ~shrunkInCycle'
            /\ (ShrinkContinues /\ PassEnds) =>
                   /\ shrunkInCycle \/ finalWidths' # finalWidths
                   /\ excessWidth' > 0]_vars
    /\ (pc = "growth") ~> (pc = "distributed")

\* a distribution that took two growth iterations and has returned
C27_Witness ==
    /\ pc = "distributed"
    /\ growthCycles >= 2
    /\ SumSeq(finalWidths) > SumSeq([i \in ColIdx |-> ClampWidth(i, idealWidths[i])])

\* a distribution that took more than one shrink pass and has returned with excess left
C27_ShrinkWitness ==
    /\ pc = "distributed"
    /\ excessWidth > 0
    /\ \E i \in ColIdx : Removed(i) >= 2

\* ------------------------------------------------------------ style fall-through
\* the sources of the cell that give attribute a a value: the key is present and
\* its value is not undefined
Giving(r, i, a) ==
    {k \in 1..4 : a \in DOMAIN StyleSources(r, i)[k] /\ StyleSources(r, i)[k][a] # "undefined"}

LatestGiving(r, i, a) == CHOOSE k \in Giving(r, i, a) : \A j \in Giving(r, i, a) : j <= k

\* every attribute with the value of the latest source that gives it one
FallThroughStyle(r, i) ==
    [a \in {b \in Attributes : Giving(r, i, b) # {}} |->
        StyleSources(r, i)[LatestGiving(r, i, a)][a]]

\* the data line of row r with every cell in its fall-through style
FallThroughLine(r) ==
    DataLineOf([i \in ColIdx |-> applyStyle(ShapedCell(r, i), FallThroughStyle(r, i))])

\* C28: a style source in which an attribute is absent or undefined never clears
\* the attribute: every rendered data cell shows, for each attribute, the value of
\* the latest source (theme base, rowStyle, column.style, cellStyle) that gives it
\* a value, so the attributes given by different sources are all on the cell.
C28_StyleFallThrough ==
    pc = "rendered" => \A r \in RowIdx : DataLine(r) = FallThroughLine(r)

\* a rendered visible cell whose colour is given by a lower source and carried as
\* undefined by a higher one: the cell is rendered without the colour
C28_Witness ==
    /\ pc = "rendered" /\ chalkLevel = 1
    /\ \E r \in RowIdx : \E i \in ColIdx : \E k \in Giving(r, i, "color") :
          /\ ~IncludesEscape(ShapedCell(r, i)) /\ ~IsBlank(ShapedCell(r, i))
          /\ \E j \in (k + 1)..4 :
                 /\ "color" \in DOMAIN StyleSources(r, i)[j]
                 /\ StyleSources(r, i)[j].color = "undefined"
                 /\ \A m \in (j + 1)..4 : "color" \notin DOMAIN StyleSources(r, i)[m]
          /\ "color" \in DOMAIN FallThroughStyle(r, i)
          /\ finalStyle(i, rows[r], r - 1).color = "undefined"
          /\ DataLine(r) # FallThroughLine(r)

\* sources that leave attributes out: every attribute given anywhere is on the cell
C28_AbsentWitness ==
    /\ pc = "rendered" /\ chalkLevel = 1
    /\ \E r \in RowIdx : \E i \in ColIdx :
          /\ \A k \in 1..4 : \A a \in DOMAIN StyleSources(r, i)[k] :
                 StyleSources(r, i)[k][a] # "undefined"
          /\ Cardinality({k \in 1..4 : DOMAIN StyleSources(r, i)[k] # {}}) >= 3
          /\ Cardinality(DOMAIN FallThroughStyle(r, i)) >= 2
          /\ FallThroughStyle(r, i) = finalStyle(i, rows[r], r - 1)
          /\ DataLine(r) = FallThroughLine(r)

\* ------------------------------------------------------------ styles see raw data
\* the raw value of column i in the source row r (counted from 0)
RawValue(r, i) == rows[r + 1][i]

\* what rowStyle returns for the raw values of row r, and cellStyle for a raw value
RawRowStyle(r) ==
    IF IsDefined(config.rowStyle)
       /\ RawValue(r, config.rowStyle[1].field) = config.rowStyle[1].when
    THEN config.rowStyle[1].then ELSE EmptyStyle
RawCellStyle(r, i) ==
    IF IsDefined(ColConfig(i).cellStyle) /\ RawValue(r, i) = ColConfig(i).cellStyle[1].when
    THEN ColConfig(i).cellStyle[1].then ELSE EmptyStyle

\* the style of the cell when the callbacks are given the raw values of row r
RawDataStyle(r, i) ==
    MergeStyle(MergeStyle(MergeStyle(ExpectedBaseStyle(r), RawRowStyle(r)),
                          Nullish(ColConfig(i).style, EmptyStyle)),
               RawCellStyle(r, i))

\* the formatted text of the cell
DisplayText(r, i) == ApplyFormatter(ColConfig(i).formatter[1], RawValue(r, i), r)

\* the data line of the source row r, its cells styled by the raw values
RawStyledLine(r) ==
    DataLineOf([i \in ColIdx |->
        applyStyle(alignAndTruncateText(DisplayText(r, i), finalWidths[i], AlignmentOf(i), i),
                   RawDataStyle(r, i))])

\* C29: the k-th data line of a rendered table is the source row startRow + k - 1
\* with every cell in the style rowStyle gives for that row's raw values and
\* cellStyle for that cell's raw value, whatever the column's formatter makes of
\* the value.
C29_StylesSeeRawData ==
    pc = "rendered" =>
        \A k \in 1..Cardinality(PageRows) : output[3 + k] = RawStyledLine(PageStart + k - 1)

\* behind an offset: a cell whose raw value is not the one cellStyle looks for but
\* whose formatted text is, rendered without that style, beside a cell whose raw
\* value is the one and whose formatted text is not, rendered with it
C29_Witness ==
    /\ pc = "rendered"
    /\ config.rowOffset = Some(1)
    /\ \E k \in 1..Cardinality(PageRows) : \E i, j \in ColIdx :
          LET r == PageStart + k - 1
          IN  /\ IsDefined(ColConfig(i).cellStyle) /\ IsDefined(ColConfig(j).cellStyle)
              /\ RawValue(r, i) # ColConfig(i).cellStyle[1].when
              /\ DisplayText(r, i) = ColConfig(i).cellStyle[1].when
              /\ "color" \notin DOMAIN RawDataStyle(r, i)
              /\ RawValue(r, j) = ColConfig(j).cellStyle[1].when
              /\ DisplayText(r, j) # ColConfig(j).cellStyle[1].when
              /\ RawDataStyle(r, j).color = "red"
              /\ HasInfix(output[3 + k], Sgr(AnsiCodes.red.open) \o <<" ", "b", "b">>)
              /\ output[3 + k] = RawStyledLine(r)

\* a row style decided by a raw value that the formatter hides
C29_RowStyleWitness ==
    /\ pc = "rendered"
    /\ IsDefined(config.rowStyle)
    /\ config.rowOffset = Some(1)
    /\ \E k \in 1..Cardinality(PageRows) :
          LET r == PageStart + k - 1
          IN  /\ RawRowStyle(r) # EmptyStyle
              /\ DisplayText(r, config.rowStyle[1].field) # config.rowStyle[1].when
              /\ RawRowStyle(r - 1) = EmptyStyle
              /\ output[3 + k] = RawStyledLine(r)

\* ------------------------------------------------------------ footer window
\* the number of data lines that show a source row
RenderedSourceRows == IF PageRows = {} THEN 0 ELSE Len(PageDataLines)

\* C30: the FooterInfo given to the footer callback has
\* 0 <= startRow <= endRow <= totalRows and
\* displayedRows = endRow - startRow = the number of source rows rendered as data
\* rows, which is never negative.
C30_FooterWindowConsistent ==
    (pc = "rendered" /\ IsDefined(config.footer)) =>
        /\ 0 <= footerInfo.startRow
        /\ footerInfo.startRow <= footerInfo.endRow
        /\ footerInfo.endRow <= footerInfo.totalRows
        /\ footerInfo.displayedRows = footerInfo.endRow - footerInfo.startRow
        /\ footerInfo.displayedRows = RenderedSourceRows
        /\ footerInfo.displayedRows >= 0

\* three rows and an offset beyond them: the footer is told startRow 4, endRow 3
\* and displayedRows -1, under a table that shows no source row
C30_Witness ==
    /\ pc = "rendered"
    /\ IsDefined(config.footer) /\ config.footer[1].counts
    /\ Len(rows) = MaxRows
    /\ config.rowOffset = Some(MaxRows + 1)
    /\ config.rowLimit = undefined
    /\ footerInfo.startRow = MaxRows + 1
    /\ footerInfo.endRow = MaxRows
    /\ footerInfo.displayedRows = 0 - 1
    /\ RenderedSourceRows = 0
    /\ HasInfix(FooterLine, <<"-", "1", "/">>)

\* a negative limit: endRow below startRow = 0
C30_NegativeLimitWitness ==
    /\ pc = "rendered"
    /\ IsDefined(config.footer)
    /\ config.rowLimit = Some(-1)
    /\ config.rowOffset = undefined
    /\ footerInfo.startRow = 0
    /\ footerInfo.endRow = 0 - 1
    /\ footerInfo.displayedRows < 0

\* a window inside the rows: the footer's numbers are those of the rendered rows
C30_ConsistentWitness ==
    /\ pc = "rendered"
    /\ IsDefined(config.footer)
    /\ config.rowOffset = Some(1) /\ config.rowLimit = Some(1)
    /\ Len(rows) = MaxRows
    /\ footerInfo.startRow = 1 /\ footerInfo.endRow = 2 /\ footerInfo.displayedRows = 1
    /\ RenderedSourceRows = 1

====
